---- MODULE Spec2Model ----
(***************************************************************************)
(* A model of the dex bytecode verifier's code-flow analysis               *)
(* (runtime/verifier/method_verifier.cc): Verify(), the static pre-pass,   *)
(* the fixed-point driver CodeFlowVerifyMethod(), the successor            *)
(* propagation of CodeFlowVerifyInstruction(), UpdateRegisters() and       *)
(* Fail().  A method is a sequence of abstract instructions with the       *)
(* widths, operands and opcode flags of their dex formats; register types  *)
(* are the kinds of a small sub-lattice of RegType.                        *)
(***************************************************************************)
EXTENDS Integers, Sequences, FiniteSets, TLC

(* ------------------------------------------------------------------ *)
(* Bounds of the model                                                 *)
(* ------------------------------------------------------------------ *)

\* Length (in instructions) of the generated method bodies.
MaxGenLen == 2

(* ------------------------------------------------------------------ *)
(* Register types: a sub-lattice of RegType::Kind                      *)
(* ------------------------------------------------------------------ *)

IntegralTypes ==
  {"Zero", "BooleanConstant", "PositiveByteConstant", "Boolean", "Byte", "Integer"}

\* The kinds of a float and of the halves of a long and of a wide constant.
WideTypes == {"LongLo", "LongHi", "ConstantLo", "ConstantHi"}

ResolvedClassTypes ==
  {"Object", "This", "Other", "Abstract", "Throwable", "Exception", "Class", "IntArray",
   "FloatArray"}

UninitializedTypes == {"UninitThis", "UninitNew", "UninitAbstract", "UninitClass"}

\* RegType::IsInstantiableTypes on the resolved classes of the model.
IsInstantiableTypes(c) == c # "Abstract"

\* RegTypeCache::Uninitialized: the uninitialized type of a new-instance.
Uninitialized(c) ==
  CASE c = "Abstract" -> "UninitAbstract"
    [] c = "Class" -> "UninitClass"
    [] OTHER -> "UninitNew"

RegTypes ==
  {"Undefined", "Conflict", "Float"} \cup IntegralTypes \cup WideTypes
    \cup ResolvedClassTypes \cup UninitializedTypes

\* RegType::IsReferenceTypes(): non-zero references (uninitialized ones
\* included) and the null constant.
IsReferenceTypes(t) == t \in ResolvedClassTypes \cup UninitializedTypes \cup {"Zero"}

IsUninitializedTypes(t) == t \in UninitializedTypes

IsIntegralTypes(t) == t \in IntegralTypes

\* RegType::IsConstantTypes, IsBooleanTypes, IsByteTypes and IsFloatTypes:
\* the constants, and the kinds a boolean, a byte and a float may hold.
IsConstantTypes(t) == t \in {"Zero", "BooleanConstant", "PositiveByteConstant"}
IsBooleanTypes(t) == t \in {"Zero", "BooleanConstant", "Boolean"}
IsByteTypes(t) == IsBooleanTypes(t) \/ t \in {"PositiveByteConstant", "Byte"}
IsFloatTypes(t) == t = "Float" \/ IsConstantTypes(t)

\* RegType::IsCategory1Types: the primitive kinds of one register.
IsCategory1Types(t) == IsIntegralTypes(t) \/ t = "Float"

\* RegType::IsArrayTypes and RegTypeCache::GetComponentType on the arrays
\* of the model.
IsArrayTypes(t) == t \in {"IntArray", "FloatArray"}
GetComponentType(t) == IF t = "IntArray" THEN "Integer" ELSE "Float"

\* Rank of the integer constants in the numeric-range lattice.
ConstRank(t) ==
  CASE t = "Zero" -> 0
    [] t = "BooleanConstant" -> 1
    [] t = "PositiveByteConstant" -> 2
    [] OTHER -> 3

\* The direct superclass of a resolved class of the model.
SuperOf(c) ==
  CASE c = "Exception" -> "Throwable"
    [] OTHER -> "Object"

\* Class::IsAssignableFrom on the resolved classes of the model.
ClassAssignableFrom(lhs, rhs) ==
  \/ lhs = rhs
  \/ lhs = "Object"
  \/ lhs = "Throwable" /\ rhs = "Exception"

\* The nearest common superclass of two resolved classes.
ClassJoin(a, b) ==
  IF ClassAssignableFrom(a, b) THEN a
  ELSE IF ClassAssignableFrom(b, a) THEN b
  ELSE IF ClassAssignableFrom(SuperOf(a), b) THEN SuperOf(a)
  ELSE IF ClassAssignableFrom(SuperOf(b), a) THEN SuperOf(b)
  ELSE "Object"

\* RegType::Merge: the least upper bound of two register types.
Merge(a, b) ==
  IF a = b THEN a
  ELSE IF a \in {"Undefined", "Conflict"} \/ b \in {"Undefined", "Conflict"}
    THEN "Conflict"
  ELSE IF IsIntegralTypes(a) /\ IsIntegralTypes(b)
    THEN (IF IsConstantTypes(a) /\ IsConstantTypes(b)
            THEN (IF ConstRank(a) >= ConstRank(b) THEN a ELSE b)
          ELSE IF IsBooleanTypes(a) /\ IsBooleanTypes(b) THEN "Boolean"
          ELSE IF IsByteTypes(a) /\ IsByteTypes(b) THEN "Byte"
          ELSE "Integer")
  ELSE IF IsFloatTypes(a) /\ IsFloatTypes(b) THEN "Float"
  ELSE IF {a, b} = {"LongLo", "ConstantLo"} THEN "LongLo"
  ELSE IF {a, b} = {"LongHi", "ConstantHi"} THEN "LongHi"
  ELSE IF IsUninitializedTypes(a) \/ IsUninitializedTypes(b) THEN "Conflict"
  ELSE IF a = "Zero" /\ IsReferenceTypes(b) THEN b
  ELSE IF b = "Zero" /\ IsReferenceTypes(a) THEN a
  ELSE IF a \in ResolvedClassTypes /\ b \in ResolvedClassTypes THEN ClassJoin(a, b)
  ELSE "Conflict"

\* RegType::AssignabilityFrom on the kinds of the model: integers widen,
\* an integer kind given to a narrower one is a narrowing conversion, and
\* two classes are left to the class hierarchy.
AssignabilityFrom(lhs, rhs) ==
  CASE lhs = "Boolean" ->
         (IF IsBooleanTypes(rhs) THEN "kAssignable"
          ELSE IF IsIntegralTypes(rhs) THEN "kNarrowingConversion"
          ELSE "kNotAssignable")
    [] lhs = "Byte" ->
         (IF IsByteTypes(rhs) THEN "kAssignable"
          ELSE IF IsIntegralTypes(rhs) THEN "kNarrowingConversion"
          ELSE "kNotAssignable")
    [] lhs = "Integer" ->
         (IF IsIntegralTypes(rhs) THEN "kAssignable" ELSE "kNotAssignable")
    [] lhs = "Float" -> (IF IsFloatTypes(rhs) THEN "kAssignable" ELSE "kNotAssignable")
    [] lhs = "LongLo" ->
         (IF rhs \in {"LongLo", "ConstantLo"} THEN "kAssignable" ELSE "kNotAssignable")
    [] lhs \in ResolvedClassTypes ->
         (IF rhs = "Zero" THEN "kAssignable"
          ELSE IF rhs \notin ResolvedClassTypes THEN "kNotAssignable"
          ELSE IF lhs = "Object" THEN "kAssignable"
          ELSE "kReference")
    [] OTHER -> "kNotAssignable"

\* MethodVerifier::AssignableFrom, non-strict, on the types of the model:
\* a narrowing conversion is not assignable, two classes are assignable as
\* Class::IsAssignableFrom says.
AssignableFrom(lhs, rhs) ==
  \/ lhs = rhs
  \/ AssignabilityFrom(lhs, rhs) = "kAssignable"
  \/ AssignabilityFrom(lhs, rhs) = "kReference" /\ ClassAssignableFrom(lhs, rhs)

\* MethodVerifier::DetermineCat1Constant for the literals of the model.
DetermineCat1Constant(value) ==
  IF value = 0 THEN "Zero"
  ELSE IF value = 1 THEN "BooleanConstant"
  ELSE "PositiveByteConstant"

(* ------------------------------------------------------------------ *)
(* Instructions and methods                                            *)
(* ------------------------------------------------------------------ *)

\* An instruction: opcode, registers vA and vB (for const: vB is the
\* literal), relative branch offset, the class or field it names, and the
\* relative targets of a switch.  The third register vC is 0 but for the
\* formats that have one.
Insn(op, vA, vB, off, aux, targets) ==
  [op |-> op, vA |-> vA, vB |-> vB, vC |-> 0, off |-> off, aux |-> aux,
   targets |-> targets, args |-> <<>>]

Nop == Insn("nop", 0, 0, 0, "", <<>>)
Const(vA, lit) == Insn("const", vA, lit, 0, "", <<>>)
MoveObject(vA, vB) == Insn("move-object", vA, vB, 0, "", <<>>)
MoveException(vA) == Insn("move-exception", vA, 0, 0, "", <<>>)
ReturnVoid == Insn("return-void", 0, 0, 0, "", <<>>)
ReturnObject(vA) == Insn("return-object", vA, 0, 0, "", <<>>)
MonitorEnter(vA) == Insn("monitor-enter", vA, 0, 0, "", <<>>)
MonitorExit(vA) == Insn("monitor-exit", vA, 0, 0, "", <<>>)
CheckCast(vA, cls) == Insn("check-cast", vA, 0, 0, cls, <<>>)
NewInstance(vA, cls) == Insn("new-instance", vA, 0, 0, cls, <<>>)
Throw(vA) == Insn("throw", vA, 0, 0, "", <<>>)
Goto(off) == Insn("goto", 0, 0, off, "", <<>>)
Goto32(off) == Insn("goto/32", 0, 0, off, "", <<>>)
IfEqz(vA, off) == Insn("if-eqz", vA, 0, off, "", <<>>)
IfNez(vA, off) == Insn("if-nez", vA, 0, off, "", <<>>)
InstanceOf(vA, vB, cls) == Insn("instance-of", vA, vB, 0, cls, <<>>)
PackedSwitch(vA, targets) == Insn("packed-switch", vA, 0, 0, "", targets)
IGet(vA, vB, fld) == Insn("iget", vA, vB, 0, fld, <<>>)
IPut(vA, vB, fld) == Insn("iput", vA, vB, 0, fld, <<>>)
InvokeDirectInit(vC) == Insn("invoke-direct", 0, vC, 0, "<init>", <<>>)
InvokeVirtual(vC) == Insn("invoke-virtual", 0, vC, 0, "m", <<>>)
ReturnValue(vA) == Insn("return", vA, 0, 0, "", <<>>)
ConstWide(vA) == Insn("const-wide", vA, 0, 0, "", <<>>)
APut(vA, vB, vC) == [Insn("aput", vA, vB, 0, "", <<>>) EXCEPT !.vC = vC]
InvokeStatic(ret) == Insn("invoke-static", 0, 0, 0, ret, <<>>)
MoveResult(vA) == Insn("move-result", vA, 0, 0, "", <<>>)
MoveResultObject(vA) == Insn("move-result-object", vA, 0, 0, "", <<>>)
FilledNewArray(vA, args) ==
  [Insn("filled-new-array", vA, 0, 0, "IntArray", <<>>) EXCEPT !.args = args]
InvokeStaticRange(vA, vC) ==
  [Insn("invoke-static/range", vA, 0, 0, "Conflict", <<>>) EXCEPT !.vC = vC]

\* Instruction::SizeInCodeUnits: the width of the instruction's format.
SizeInCodeUnits(inst) ==
  CASE inst.op \in {"if-eqz", "if-nez", "instance-of", "iget", "iput", "check-cast",
                    "new-instance", "const-wide",
                    "aput"} -> 2
    [] inst.op \in {"invoke-direct", "invoke-virtual", "invoke-static", "packed-switch",
                    "goto/32", "filled-new-array", "invoke-static/range"} -> 3
    [] OTHER -> 1

\* Instruction::FlagsOf: the static opcode flags.
FlagsOf(op) ==
  CASE op \in {"nop", "const", "const-wide", "move-object", "move-exception",
               "move-result", "move-result-object"} ->
         {"kContinue"}
    [] op \in {"return-void", "return", "return-object"} -> {"kReturn"}
    [] op = "throw" -> {"kThrow"}
    [] op \in {"goto", "goto/32"} -> {"kBranch"}
    [] op \in {"if-eqz", "if-nez"} -> {"kContinue", "kBranch"}
    [] op = "packed-switch" -> {"kContinue", "kSwitch"}
    [] OTHER -> {"kContinue", "kThrow"}

\* impl::IsCompatThrow
IsCompatThrow(op) == op \in {"return-object", "move-exception"}

\* kDexNoIndex: the value of work_insn_idx_ before code flow starts, the
\* 32-bit pattern 0xFFFFFFFF, written as the signed integer of that pattern.
\* work_insn_idx_ is unsigned, so "below kDexNoIndex" is "not kDexNoIndex".
kDexNoIndex == -1

\* Instruction::kMaxVarArgRegs
kMaxVarArgRegs == 5

\* kIsDebugBuild: the model is of a release build.
kIsDebugBuild == FALSE

\* std::numeric_limits<int32_t>::max() and min()
kInt32Max == 2147483647
kInt32Min == -2147483647 - 1

\* The code units the first n instructions take.
RECURSIVE SumWidths(_, _)
SumWidths(insns, n) ==
  IF n = 0 THEN 0 ELSE SumWidths(insns, n - 1) + SizeInCodeUnits(insns[n])

\* CodeItemDataAccessor::InsnsSizeInCodeUnits
InsnsSize(m) == m.insns_size

\* The dex pc of the i-th instruction of a method.
PcOf(m, i) == SumWidths(m.insns, i - 1)

\* The pcs that begin an instruction.
OpcodePcs(m) == {PcOf(m, i) : i \in 1..Len(m.insns)}

\* CodeItemDataAccessor::InstructionAt
InstructionAt(m, pc) ==
  LET i == CHOOSE j \in 1..Len(m.insns) : PcOf(m, j) = pc IN m.insns[i]

\* A try item and a catch handler.  A handler type "all" is a handler with
\* no type index.
Handler(type, addr) == [type |-> type, addr |-> addr]
TryItem(start, count, handlers) == [start |-> start, count |-> count, handlers |-> handlers]

\* CodeItemDataAccessor::FindTryItem: the first try item covering pc.
CoveringTries(m, pc) ==
  {k \in 1..Len(m.tries) : m.tries[k].start <= pc /\ pc < m.tries[k].start + m.tries[k].count}

FindTryItem(m, pc) ==
  LET k == CHOOSE j \in CoveringTries(m, pc) : \A l \in CoveringTries(m, pc) : j <= l
  IN m.tries[k]

\* All handler entry pcs of a method.
HandlerAddresses(m) ==
  UNION {{m.tries[k].handlers[h].addr : h \in 1..Len(m.tries[k].handlers)} :
           k \in 1..Len(m.tries)}

\* A method as the verifier gets it: the code item (instructions, size in
\* code units, try items, register counts) and what the method is; an
\* instance method without parameters unless WithParameters says otherwise.
Method(insns, tries, ctor, cls, ret, regs) ==
  [insns |-> insns, insns_size |-> SumWidths(insns, Len(insns)), tries |-> tries,
   is_constructor |-> ctor, is_static |-> FALSE, declaring_class |-> cls,
   return_type |-> ret, registers_size |-> regs, ins_size |-> 1, param_types |-> <<>>]

\* The method m with the parameter descriptors descs and ins registers.
WithParameters(m, descs, ins) == [m EXCEPT !.param_types = descs, !.ins_size = ins]

Registers(m) == 0..(m.registers_size - 1)

\* MethodVerifier::IsInstanceConstructor
IsInstanceConstructor(m) == m.is_constructor /\ ~m.is_static

(* ------------------------------------------------------------------ *)
(* Register lines                                                      *)
(* ------------------------------------------------------------------ *)

\* RegisterLine::Create: every register Undefined, no monitor held.
CreateLine(m) ==
  [regs |-> [r \in Registers(m) |-> "Undefined"],
   monitors |-> <<>>,
   reg_to_lock_depths |-> [r \in Registers(m) |-> {}],
   this_initialized |-> FALSE,
   result |-> "Undefined"]

\* A slot of the pc-to-register-line table that holds no line.
NoLine == [none |-> TRUE]

\* RegisterLine::CopyFromLine: the registers, the monitors, the lock depths
\* and this_initialized of src; the result slot of dst stays.
CopyFromLine(dst, src) == [src EXCEPT !.result = dst.result]

\* RegisterLine::SetRegisterType<LockOp::kClear>
SetRegisterType(line, r, t) ==
  [line EXCEPT !.regs[r] = t, !.reg_to_lock_depths[r] = {}]

\* RegisterLine::SetRegisterTypeWide: the two halves of a wide value.
SetRegisterTypeWide(line, r, lo, hi) ==
  SetRegisterType(SetRegisterType(line, r, lo), r + 1, hi)

\* RegisterLine::SetRegisterType<LockOp::kKeep>
SetRegisterTypeKeep(line, r, t) == [line EXCEPT !.regs[r] = t]

\* RegisterLine::CopyRegister1 for two registers of a legal category: the
\* type and the lock depths of the source go to the destination.
CopyRegister1(line, vdst, vsrc) ==
  [line EXCEPT !.regs[vdst] = line.regs[vsrc],
               !.reg_to_lock_depths[vdst] = line.reg_to_lock_depths[vsrc]]

\* RegisterLine::MarkRefsAsInitialized: every register holding the
\* uninitialized type of vsrc becomes initialized.
InitializedTypeOf(m, t) ==
  CASE t = "UninitThis" -> m.declaring_class
    [] t = "UninitAbstract" -> "Abstract"
    [] t = "UninitClass" -> "Class"
    [] OTHER -> "Other"

MarkRefsAsInitialized(m, line, vsrc) ==
  LET uninit == line.regs[vsrc] IN
  [line EXCEPT
     !.regs = [r \in Registers(m) |->
                 IF line.regs[r] = uninit THEN InitializedTypeOf(m, uninit)
                 ELSE line.regs[r]],
     !.this_initialized = line.this_initialized \/ uninit = "UninitThis"]

\* RegisterLine::MarkAllRegistersAsConflicts
MarkAllRegistersAsConflicts(m, line) ==
  [line EXCEPT !.regs = [r \in Registers(m) |-> "Conflict"]]

\* RegisterLine::MarkAllRegistersAsConflictsExcept
MarkAllRegistersAsConflictsExcept(m, line, vsrc) ==
  [line EXCEPT !.regs = [r \in Registers(m) |->
                           IF r = vsrc THEN line.regs[r] ELSE "Conflict"]]

\* RegisterLine::MonitorStackDepth
MonitorStackDepth(line) == Len(line.monitors)

(* ------------------------------------------------------------------ *)
(* Failures                                                            *)
(* ------------------------------------------------------------------ *)

\* The failure state of a verifier: failures_, encountered_failure_types_,
\* the two flags_ and saved_line_ (which PotentiallyMarkRuntimeThrow may
\* overwrite).
FailState(fl, enc, hard, rt, saved) ==
  [failures |-> fl, encountered |-> enc, hard |-> hard, rt |-> rt, saved |-> saved]

SoftErrorsWithThrow ==
  {"NO_CLASS", "UNRESOLVED_TYPE_CHECK", "NO_METHOD", "NO_FIELD", "ACCESS_CLASS",
   "ACCESS_FIELD", "ACCESS_METHOD", "INSTANTIATION", "CLASS_CHANGE", "LOCKING"}

(* ------------------------------------------------------------------ *)
(* State                                                               *)
(* ------------------------------------------------------------------ *)

VARIABLES
  method,            \* the method under verification
  env,               \* aot_mode, sdk_s_v2, locking_exc
  phase,             \* position of the verifier in Verify()
  insn_flags,        \* insn_flags_: per dex pc
  reg_table,         \* reg_table_: per dex pc, a line or NoLine
  work_line,         \* work_line_
  saved_line,        \* saved_line_
  work_insn_idx,     \* work_insn_idx_
  start_guess,       \* start_guess of CodeFlowVerifyMethod
  opcode_flags,      \* opcode_flags of CodeFlowVerifyInstruction
  exc_handler_unreachable,
  failures,          \* failures_
  encountered_failure_types,
  have_pending_hard_failure,
  have_pending_runtime_throw_failure,
  verify_result,     \* "none" while running, then what Verify() returned
  obs,               \* history: what the run did, for the properties
  cache,             \* the RegTypeCache: entries_, klass_entries_, entries_for_type_index_
  interesting_dex_pc,     \* interesting_dex_pc_
  monitor_enter_dex_pcs,  \* monitor_enter_dex_pcs_: null, or the list it points to
  branch_line,       \* branch_line of CodeFlowVerifyInstruction: a line or NoLine
  fallthrough_line   \* fallthrough_line of CodeFlowVerifyInstruction

vars ==
  <<method, env, phase, insn_flags, reg_table, work_line, saved_line, work_insn_idx,
    start_guess, opcode_flags, exc_handler_unreachable, failures,
    encountered_failure_types, have_pending_hard_failure,
    have_pending_runtime_throw_failure, verify_result, obs, cache,
    interesting_dex_pc, monitor_enter_dex_pcs, branch_line, fallthrough_line>>

\* The lines of the peephole optimization.
peephole_vars == <<branch_line, fallthrough_line>>

\* The failure state held in the variables.
CurFailState ==
  FailState(failures, encountered_failure_types, have_pending_hard_failure,
            have_pending_runtime_throw_failure, saved_line)

\* InstructionFlags of a pc before the pre-pass.
NoFlags ==
  [opcode |-> FALSE, branch_target |-> FALSE, in_try |-> FALSE, is_return |-> FALSE,
   visited |-> FALSE, changed |-> FALSE]

\* InstructionFlags::IsVisitedOrChanged
IsVisitedOrChanged(f) == f.visited \/ f.changed

\* MethodVerifier::PotentiallyMarkRuntimeThrow past the mode test, for the
\* work instruction's opcode op (none before code flow starts).
MarkRuntimeThrowAt(fs, wl, op) ==
  IF work_insn_idx # kDexNoIndex /\ op = "move-exception"
    THEN [fs EXCEPT !.failures = Append(@, "RUNTIME_THROW"),
                    !.encountered = @ \cup {"RUNTIME_THROW"}]
  ELSE [fs EXCEPT
          !.saved = IF /\ work_insn_idx # kDexNoIndex
                       /\ "kThrow" \notin FlagsOf(op)
                       /\ ~IsCompatThrow(op)
                       /\ insn_flags[work_insn_idx].in_try
                      THEN CopyFromLine(@, wl)
                    ELSE @,
          !.rt = TRUE]

\* PotentiallyMarkRuntimeThrow without the test of the mode: the runtime
\* throw is marked in AOT mode and for every SDK level.
PotentiallyMarkRuntimeThrow_AnyMode(fs, wl) ==
  MarkRuntimeThrowAt(fs, wl, InstructionAt(method, work_insn_idx).op)

\* MethodVerifier::PotentiallyMarkRuntimeThrow, called with the work line
\* as it is at the call.  Returns the new failure state.
PotentiallyMarkRuntimeThrow(fs, wl) ==
  IF env.aot_mode \/ env.sdk_s_v2 THEN fs
  ELSE MarkRuntimeThrowAt(fs, wl, InstructionAt(method, work_insn_idx).op)

\* Fail without the case of VERIFY_ERROR_BAD_CLASS_HARD: the hard failure
\* is listed, the flag is not set.
Fail_NoHardFlag(fs, error, pending_exc, wl) ==
  [(IF pending_exc /\ error \in SoftErrorsWithThrow
      THEN PotentiallyMarkRuntimeThrow(fs, wl)
    ELSE fs)
   EXCEPT !.failures = Append(@, error), !.encountered = @ \cup {error}]

\* Fail with VERIFY_ERROR_LOCKING rejecting the method like a hard failure.
Fail_LockingHard(fs, error, pending_exc, wl) ==
  [(IF pending_exc /\ error \in SoftErrorsWithThrow
      THEN PotentiallyMarkRuntimeThrow(fs, wl)
    ELSE IF pending_exc /\ error = "BAD_CLASS_HARD"
      THEN [fs EXCEPT !.hard = TRUE]
    ELSE fs)
   EXCEPT !.hard = @ \/ error = "LOCKING",
          !.failures = Append(@, error), !.encountered = @ \cup {error}]

\* MethodVerifier::Fail, its end: failures_.push_back(error), and the
\* error type marked as encountered.
RecordFailure(fs, error) ==
  [fs EXCEPT !.failures = Append(@, error), !.encountered = @ \cup {error}]

\* MethodVerifier::Fail(error, pending_exc)
Fail(fs, error, pending_exc, wl) ==
  RecordFailure(IF pending_exc /\ error \in SoftErrorsWithThrow
                  THEN PotentiallyMarkRuntimeThrow(fs, wl)
                ELSE IF pending_exc /\ error = "BAD_CLASS_HARD"
                  THEN [fs EXCEPT !.hard = TRUE]
                ELSE fs,
                error)

\* A line together with the failure state: what the register-line
\* operations that can fail return.
LF(line, fs) == [line |-> line, fs |-> fs]

\* RegisterLine::CheckConstructorReturn
CheckConstructorReturn(line, fs) ==
  IF line.this_initialized THEN fs ELSE Fail(fs, "BAD_CLASS_HARD", TRUE, line)

\* RegisterLine::VerifyMonitorStackEmpty; wl is work_line_ at the call.
VerifyMonitorStackEmpty(line, fs, wl) ==
  IF MonitorStackDepth(line) # 0 THEN Fail(fs, "LOCKING", env.locking_exc, wl) ELSE fs

\* RegisterLine::PushMonitor
PushMonitor(line, fs, reg, pc) ==
  IF ~IsReferenceTypes(line.regs[reg])
    THEN LF(line, Fail(fs, "BAD_CLASS_HARD", TRUE, line))
  ELSE LF([line EXCEPT !.reg_to_lock_depths[reg] = @ \cup {Len(line.monitors)},
                       !.monitors = Append(@, pc)], fs)

\* RegisterLine::PopMonitor
PopMonitor(m, line, fs, reg) ==
  IF ~IsReferenceTypes(line.regs[reg])
    THEN LF(line, Fail(fs, "BAD_CLASS_HARD", TRUE, line))
  ELSE IF line.monitors = <<>>
    THEN LF(line, Fail(fs, "LOCKING", env.locking_exc, line))
  ELSE LET depth == Len(line.monitors) - 1
           popped == [line EXCEPT !.monitors = SubSeq(@, 1, depth)]
       IN IF depth \notin line.reg_to_lock_depths[reg]
            THEN LF(popped, Fail(fs, "LOCKING", env.locking_exc, popped))
          ELSE LF([popped EXCEPT !.reg_to_lock_depths =
                     [r \in Registers(m) |-> @[r] \ {depth}]], fs)

\* RegisterLine::MergeRegisters: merges incoming into line; returns the
\* merged line, whether it changed, and the failure state.
MergeRegisters(m, line, incoming, fs, wl) ==
  LET merged == [r \in Registers(m) |-> Merge(line.regs[r], incoming.regs[r])]
      lock_mismatch ==
        /\ Len(line.monitors) > 0 \/ Len(incoming.monitors) > 0
        /\ \/ Len(line.monitors) # Len(incoming.monitors)
           \/ line.reg_to_lock_depths # incoming.reg_to_lock_depths
      this_lost == line.this_initialized /\ ~incoming.this_initialized
  IN [line |-> [line EXCEPT !.regs = merged,
                            !.this_initialized = @ /\ incoming.this_initialized],
      changed |-> merged # line.regs \/ this_lost,
      fs |-> IF lock_mismatch THEN Fail(fs, "LOCKING", env.locking_exc, wl) ELSE fs]

(* ------------------------------------------------------------------ *)
(* Transfer functions: the switch of CodeFlowVerifyInstruction         *)
(* ------------------------------------------------------------------ *)

\* What a transfer function leaves behind: the work line, the failure
\* state and exc_handler_unreachable.
TR(line, fs, unreach) == [line |-> line, fs |-> fs, unreach |-> unreach]

\* case Instruction::NOP (the model has no data tables: vA is 0)
TransferNop(line, fs) == TR(line, fs, FALSE)

\* case Instruction::CONST_4
TransferConst(inst, line, fs) ==
  TR(SetRegisterType(line, inst.vA, DetermineCat1Constant(inst.vB)), fs, FALSE)

\* case Instruction::MOVE_OBJECT: CopyRegister1 with kTypeCategoryRef
TransferMoveObject(inst, line, fs) ==
  IF IsReferenceTypes(line.regs[inst.vB])
    THEN TR(CopyRegister1(line, inst.vA, inst.vB), fs, FALSE)
  ELSE TR(line, Fail(fs, "BAD_CLASS_HARD", TRUE, line), FALSE)

\* The catch handlers of a method in the order of the handler data.
RECURSIVE AllHandlers(_, _)
AllHandlers(m, k) ==
  IF k = 0 THEN <<>> ELSE AllHandlers(m, k - 1) \o m.tries[k].handlers

\* The class a handler type index resolves to.
HandlerClass(type) == IF type = "all" THEN "Throwable" ELSE type

\* The handler type index of a class that does not resolve, and the
\* register kind that stands for every unresolved reference type.
UnresolvedClass == "Unresolved"

\* Some handler at pc catches a class that does not resolve.
CaughtUnresolved(hs, pc) ==
  \E i \in DOMAIN hs : hs[i].addr = pc /\ hs[i].type = UnresolvedClass

\* The loop of caught_exc_type_fn over handlers hs[i..]: the common
\* superclass found ("none" when no handler matched yet), or "bad" at the
\* first handler at pc that catches a non-throwable class.  A handler of
\* an unresolved class is kept aside (`unresolved`).
RECURSIVE CaughtExcType(_, _, _, _)
CaughtExcType(hs, i, pc, common_super) ==
  IF i > Len(hs) THEN common_super
  ELSE IF hs[i].addr # pc THEN CaughtExcType(hs, i + 1, pc, common_super)
  ELSE IF hs[i].type = "all" THEN CaughtExcType(hs, i + 1, pc, "Throwable")
  ELSE IF hs[i].type = UnresolvedClass THEN CaughtExcType(hs, i + 1, pc, common_super)
  ELSE IF ~AssignableFrom("Throwable", HandlerClass(hs[i].type)) THEN "bad"
  ELSE IF common_super = "none"
    THEN CaughtExcType(hs, i + 1, pc, HandlerClass(hs[i].type))
  ELSE CaughtExcType(hs, i + 1, pc, Merge(common_super, HandlerClass(hs[i].type)))

\* MethodVerifier::HandleMoveException and case Instruction::MOVE_EXCEPTION.
\* An unresolved catch handler is a soft failure; without a resolved
\* handler beside it the handler is unreachable where a runtime throw is
\* marked.
HandleMoveException(m, pc, inst, line, fs) ==
  IF pc = 0 THEN TR(line, Fail(fs, "BAD_CLASS_HARD", TRUE, line), FALSE)
  ELSE LET hs == AllHandlers(m, Len(m.tries))
           caught == CaughtExcType(hs, 1, pc, "none")
           soft == Fail(fs, "UNRESOLVED_TYPE_CHECK", FALSE, line)
       IN IF caught = "bad"
            THEN TR(SetRegisterType(line, inst.vA, "Conflict"),
                    Fail(fs, "BAD_CLASS_HARD", TRUE, line), FALSE)
          ELSE IF CaughtUnresolved(hs, pc)
            THEN TR(SetRegisterType(line, inst.vA, UnresolvedClass),
                    IF caught = "none" THEN PotentiallyMarkRuntimeThrow(soft, line)
                    ELSE soft,
                    caught = "none" /\ ~(env.aot_mode \/ env.sdk_s_v2))
          ELSE IF caught = "none"
            THEN TR(SetRegisterType(line, inst.vA, "Conflict"),
                    Fail(fs, "BAD_CLASS_HARD", TRUE, line), FALSE)
          ELSE TR(SetRegisterType(line, inst.vA, caught), fs, FALSE)

\* case Instruction::RETURN_VOID, after the constructor check left fs1
ReturnVoidChecked(m, line, fs1) ==
  IF (~IsInstanceConstructor(m) \/ line.this_initialized) /\ m.return_type # "Conflict"
    THEN TR(line, Fail(fs1, "BAD_CLASS_HARD", TRUE, line), FALSE)
  ELSE TR(line, fs1, FALSE)

\* case Instruction::RETURN_VOID
TransferReturnVoid(m, line, fs) ==
  ReturnVoidChecked(m, line,
                    IF IsInstanceConstructor(m) THEN CheckConstructorReturn(line, fs)
                    ELSE fs)

\* case Instruction::RETURN_OBJECT, after the constructor check left fs1
ReturnObjectChecked(m, inst, line, fs1) ==
  LET reg_type == line.regs[inst.vA]
      bad == \/ ~IsReferenceTypes(m.return_type)
             \/ reg_type \in {"Undefined", "Conflict"}
             \/ IsUninitializedTypes(reg_type)
             \/ ~IsReferenceTypes(reg_type)
             \/ ~AssignableFrom(m.return_type, reg_type)
  IN IF (~IsInstanceConstructor(m) \/ line.this_initialized) /\ bad
       THEN TR(line, Fail(fs1, "BAD_CLASS_HARD", TRUE, line), FALSE)
     ELSE TR(line, fs1, FALSE)

\* case Instruction::RETURN_OBJECT
TransferReturnObject(m, inst, line, fs) ==
  ReturnObjectChecked(m, inst, line,
                      IF IsInstanceConstructor(m) THEN CheckConstructorReturn(line, fs)
                      ELSE fs)

\* The instruction before pc, as the backward scan over IsOpcode finds it.
PrevInstruction(m, pc) ==
  LET prev_idx == CHOOSE p \in OpcodePcs(m) :
                    p < pc /\ \A q \in OpcodePcs(m) : q < pc => q <= p
  IN InstructionAt(m, prev_idx)

\* case Instruction::MONITOR_ENTER, after PushMonitor left pushed: a
\* preceding move-object from vA is redone to copy the lock status.
RedoMoveObject(pc, inst, prev, pushed) ==
  IF pc # 0 /\ ~insn_flags[pc].branch_target /\ prev.op = "move-object" /\ prev.vB = inst.vA
    THEN (IF IsReferenceTypes(pushed.line.regs[prev.vB])
            THEN TR(CopyRegister1(pushed.line, prev.vA, prev.vB), pushed.fs, FALSE)
          ELSE TR(pushed.line, Fail(pushed.fs, "BAD_CLASS_HARD", TRUE, pushed.line), FALSE))
  ELSE TR(pushed.line, pushed.fs, FALSE)

\* case Instruction::MONITOR_ENTER
TransferMonitorEnter(m, pc, inst, line, fs) ==
  RedoMoveObject(pc, inst, IF pc = 0 THEN inst ELSE PrevInstruction(m, pc),
                 PushMonitor(line, fs, inst.vA, pc))

\* A line and a failure state as the result of a transfer function.
TROf(lf) == TR(lf.line, lf.fs, FALSE)

\* case Instruction::MONITOR_EXIT (the kThrow flag is stripped by the caller)
TransferMonitorExit(m, inst, line, fs) == TROf(PopMonitor(m, line, fs, inst.vA))

\* case Instruction::CHECK_CAST, for a class that resolves and is accessible
TransferCheckCast(inst, line, fs) ==
  LET orig_type == line.regs[inst.vA]
  IN IF ~IsReferenceTypes(orig_type) \/ IsUninitializedTypes(orig_type)
       THEN TR(line, Fail(fs, "BAD_CLASS_HARD", TRUE, line), FALSE)
     ELSE TR(SetRegisterTypeKeep(line, inst.vA, inst.aux), fs, FALSE)

\* case Instruction::NEW_INSTANCE
TransferNewInstance(inst, line, fs) ==
  LET fs1 == IF ~IsInstantiableTypes(inst.aux)
               THEN Fail(fs, "INSTANTIATION", TRUE, line)
             ELSE fs
  IN TR(SetRegisterType(line, inst.vA, Uninitialized(inst.aux)), fs1, FALSE)

\* case Instruction::THROW
TransferThrow(inst, line, fs) ==
  IF ~AssignableFrom("Throwable", line.regs[inst.vA])
    THEN TR(line, Fail(fs, "BAD_CLASS_HARD", TRUE, line), FALSE)
  ELSE TR(line, fs, FALSE)

\* MethodVerifier::VerifyRegisterType on resolved types
VerifyRegisterType(line, fs, vsrc, check_type) ==
  IF AssignableFrom(check_type, line.regs[vsrc]) THEN fs
  ELSE Fail(fs, "BAD_CLASS_HARD", TRUE, line)

\* case Instruction::PACKED_SWITCH
TransferSwitch(inst, line, fs) ==
  TR(line, VerifyRegisterType(line, fs, inst.vA, "Integer"), FALSE)

\* case Instruction::INSTANCE_OF, for a class that resolves and is accessible
TransferInstanceOf(inst, line, fs) ==
  LET orig_type == line.regs[inst.vB]
  IN IF ~IsReferenceTypes(orig_type) \/ IsUninitializedTypes(orig_type)
       THEN TR(line, Fail(fs, "BAD_CLASS_HARD", TRUE, line), FALSE)
     ELSE TR(SetRegisterType(line, inst.vA, "Boolean"), fs, FALSE)

\* MethodVerifier::IsStrictlyAssignableFrom on the types of the model, which
\* has no interface and no unresolved type for strictness to tell apart.
IsStrictlyAssignableFrom(lhs, rhs) == AssignableFrom(lhs, rhs)

\* The peephole test of the instance-of that precedes the if at pc: the if
\* is no branch target and tests the register the instance-of wrote, which
\* is not the one it read, and the class of the instance-of is more
\* precise than the type the register has in line.
PeepholeApplies(m, flags, pc, line) ==
  /\ pc # 0
  /\ ~flags[pc].branch_target
  /\ LET inst == InstructionAt(m, pc)
         instance_of_inst == PrevInstruction(m, pc)
         orig_type == line.regs[instance_of_inst.vB]
         cast_type == instance_of_inst.aux
     IN /\ instance_of_inst.op = "instance-of"
        /\ inst.vA = instance_of_inst.vA
        /\ instance_of_inst.vA # instance_of_inst.vB
        /\ orig_type # cast_type
        /\ cast_type \in ResolvedClassTypes
        /\ orig_type # "Zero"
        /\ IsStrictlyAssignableFrom(orig_type, Merge(cast_type, orig_type))

\* The pc of the opcode before pc.
PrevOpcodePc(m, pc) ==
  CHOOSE p \in OpcodePcs(m) : p < pc /\ \A q \in OpcodePcs(m) : q < pc => q <= p

\* The source register of a move-object that precedes the instance-of
\* before the if at pc and wrote the register the instance-of tests: the
\* set of it, or the empty set.
MoveSources(m, flags, pc) ==
  LET instance_of_idx == PrevOpcodePc(m, pc)
      instance_of_inst == InstructionAt(m, instance_of_idx)
  IN IF flags[instance_of_idx].branch_target \/ instance_of_idx = 0 THEN {}
     ELSE LET move_inst == PrevInstruction(m, instance_of_idx)
          IN IF /\ move_inst.op = "move-object"
                /\ move_inst.vA = instance_of_inst.vB
                /\ move_inst.vB # instance_of_inst.vA
               THEN {move_inst.vB}
             ELSE {}

\* The update line that narrows no register.
UpdateLine_NotNarrowed(m, flags, pc, line) == CopyFromLine(CreateLine(m), line)

\* case Instruction::IF_EQZ, IF_NEZ: update_line, a copy of the work line
\* with the tested object register, and the source of a move-object before
\* the instance-of, sharpened to the class of the instance-of.
UpdateLine(m, flags, pc, line) ==
  LET instance_of_inst == PrevInstruction(m, pc)
      narrowed == {instance_of_inst.vB} \cup MoveSources(m, flags, pc)
      copy == CopyFromLine(CreateLine(m), line)
  IN [copy EXCEPT !.regs = [r \in Registers(m) |->
                              IF r \in narrowed THEN instance_of_inst.aux ELSE @[r]]]

\* The if-nez that narrows the line of its fallthrough like an if-eqz.
PeepholeLines_AlwaysFallthrough(m, flags, pc, line) ==
  IF InstructionAt(m, pc).op \in {"if-eqz", "if-nez"} /\ PeepholeApplies(m, flags, pc, line)
    THEN [branch_line |-> NoLine, fallthrough_line |-> UpdateLine(m, flags, pc, line)]
  ELSE [branch_line |-> NoLine, fallthrough_line |-> NoLine]

\* branch_line and fallthrough_line as the switch leaves them for the
\* instruction at pc entered with line: the update line is the fallthrough
\* line of an if-eqz and the branch line of an if-nez.
PeepholeLines(m, flags, pc, line) ==
  IF InstructionAt(m, pc).op \in {"if-eqz", "if-nez"} /\ PeepholeApplies(m, flags, pc, line)
    THEN IF InstructionAt(m, pc).op = "if-eqz"
           THEN [branch_line |-> NoLine, fallthrough_line |-> UpdateLine(m, flags, pc, line)]
         ELSE [branch_line |-> UpdateLine(m, flags, pc, line), fallthrough_line |-> NoLine]
  ELSE [branch_line |-> NoLine, fallthrough_line |-> NoLine]

\* case Instruction::IF_EQZ, IF_NEZ: the test of the register
TransferIfEqz(inst, line, fs) ==
  LET reg_type == line.regs[inst.vA]
  IN IF ~IsReferenceTypes(reg_type) /\ ~IsIntegralTypes(reg_type)
       THEN TR(line, Fail(fs, "BAD_CLASS_HARD", TRUE, line), FALSE)
     ELSE TR(line, fs, FALSE)

\* The class a field id names: "other" is a field of class Other, "own"
\* and "missing" name the declaring class; "missing" does not resolve.
FieldClass(m, fld) == IF fld = "other" THEN "Other" ELSE m.declaring_class

\* GetInstanceField without the test of the declaring class for an access
\* through the uninitialized `this`.
GetInstanceField_AnyClass(m, line, fs, vregB, fld, is_put) ==
  IF ~IsReferenceTypes(line.regs[vregB]) THEN Fail(fs, "BAD_CLASS_HARD", TRUE, line)
  ELSE IF IsUninitializedTypes(line.regs[vregB])
    THEN (IF line.regs[vregB] = "UninitThis" /\ fld # "missing" THEN fs
          ELSE Fail(fs, "BAD_CLASS_HARD", TRUE, line))
  ELSE IF fld = "missing" THEN Fail(fs, "NO_FIELD", TRUE, line)
  ELSE IF line.regs[vregB] = "Zero" THEN fs
  ELSE IF ~AssignableFrom(FieldClass(m, fld), line.regs[vregB])
    THEN Fail(fs, "BAD_CLASS_HARD", TRUE, line)
  ELSE fs

\* MethodVerifier::GetInstanceField: the failure state after it.  All
\* fields of the model are accessible, non-static and of type int.
GetInstanceField(m, line, fs, vregB, fld, is_put) ==
  LET obj_type == line.regs[vregB]
      resolved == fld # "missing"
      own == resolved /\ FieldClass(m, fld) = m.declaring_class
  IN IF ~IsReferenceTypes(obj_type) THEN Fail(fs, "BAD_CLASS_HARD", TRUE, line)
     ELSE IF IsUninitializedTypes(obj_type)
       THEN (IF obj_type = "UninitThis" /\ own THEN fs
             ELSE Fail(fs, "BAD_CLASS_HARD", TRUE, line))
     ELSE IF ~resolved THEN Fail(fs, "NO_FIELD", TRUE, line)
     ELSE IF obj_type = "Zero" THEN fs
     ELSE IF ~AssignableFrom(FieldClass(m, fld), obj_type)
       THEN Fail(fs, "BAD_CLASS_HARD", TRUE, line)
     ELSE fs

\* VerifyPrimitivePut accepting every value.
VerifyPrimitivePut_AnyValue(target_type, line, fs, vregA) == fs

\* MethodVerifier::VerifyPrimitivePut for the one-register targets
VerifyPrimitivePut(target_type, line, fs, vregA) ==
  IF \/ IsIntegralTypes(target_type) /\ IsIntegralTypes(line.regs[vregA])
     \/ target_type = "Float" /\ IsFloatTypes(line.regs[vregA])
    THEN fs
  ELSE Fail(fs, "BAD_CLASS_HARD", TRUE, line)

\* MethodVerifier::VerifyISFieldAccess<kAccGet>, after GetInstanceField
\* left fs1
IGetChecked(inst, line, fs1) ==
  IF fs1.hard THEN TR(line, fs1, FALSE)
  ELSE TR(SetRegisterType(line, inst.vA, "Integer"), fs1, FALSE)

\* MethodVerifier::VerifyISFieldAccess<kAccGet> for case Instruction::IGET
TransferIGet(m, inst, line, fs) ==
  IGetChecked(inst, line, GetInstanceField(m, line, fs, inst.vB, inst.aux, FALSE))

\* MethodVerifier::VerifyISFieldAccess<kAccPut>, after GetInstanceField
\* left fs1
IPutChecked(inst, line, fs1) ==
  IF fs1.hard THEN TR(line, fs1, FALSE)
  ELSE TR(line, VerifyPrimitivePut("Integer", line, fs1, inst.vA), FALSE)

\* MethodVerifier::VerifyISFieldAccess<kAccPut> for case Instruction::IPUT
TransferIPut(m, inst, line, fs) ==
  IPutChecked(inst, line, GetInstanceField(m, line, fs, inst.vB, inst.aux, TRUE))

\* case Instruction::INVOKE_DIRECT, after VerifyInvocationArgs left fs1:
\* the constructor call needs an uninitialized reference and initializes it.
InvokeDirectChecked(m, inst, line, fs1) ==
  LET this_type == line.regs[inst.vB]
  IN IF ~IsReferenceTypes(this_type) \/ this_type = "Zero"
          \/ ~IsUninitializedTypes(this_type)
       THEN TR(line, Fail(fs1, "BAD_CLASS_HARD", TRUE, line), FALSE)
     ELSE TR(MarkRefsAsInitialized(m, line, inst.vB), fs1, FALSE)

\* case Instruction::INVOKE_DIRECT calling java.lang.Object.<init>():
\* VerifyInvocationArgs fails when `this` is not a reference.
TransferInvokeDirect(m, inst, line, fs) ==
  InvokeDirectChecked(m, inst, line,
                      IF ~IsReferenceTypes(line.regs[inst.vB])
                        THEN Fail(fs, "BAD_CLASS_HARD", TRUE, line)
                      ELSE fs)

\* case Instruction::INVOKE_VIRTUAL calling a method m() of the declaring
\* class
TransferInvokeVirtual(m, inst, line, fs) ==
  LET this_type == line.regs[inst.vB]
  IN IF ~IsReferenceTypes(this_type) \/ IsUninitializedTypes(this_type)
       THEN TR(line, Fail(fs, "BAD_CLASS_HARD", TRUE, line), FALSE)
     ELSE IF this_type # "Zero" /\ ~AssignableFrom(m.declaring_class, this_type)
       THEN TR(line, Fail(fs, "BAD_CLASS_HARD", TRUE, line), FALSE)
     ELSE TR(line, fs, FALSE)

\* RegisterLine::SetResultRegisterType
SetResultRegisterType(line, new_type) == [line EXCEPT !.result = new_type]

\* RegisterLine::SetResultTypeToUnknown
SetResultTypeToUnknown(line) == [line EXCEPT !.result = "Undefined"]

\* just_set_result left true by every instruction.
JustSetResult_Always(inst) == TRUE

\* The invoke cases end with SetResultRegisterType(return_type) and
\* just_set_result = true.
JustSetResult(inst) == inst.op \in {"invoke-direct", "invoke-virtual", "invoke-static"}

\* The return type of the method an invoke of the model calls:
\* Object.<init>() and m() return void, the static method what aux names.
InvokedReturnType(inst) == IF inst.op = "invoke-static" THEN inst.aux ELSE "Conflict"

ResultSet(inst, tr) == [tr EXCEPT !.line = SetResultRegisterType(@, InvokedReturnType(inst))]

\* RegisterLine::CopyResultRegister1: the result must be of category 1, or
\* a reference for move-result-object; the slot is then undefined.
CopyResultRegister1(line, fs, vdst, is_reference) ==
  IF \/ ~is_reference /\ ~IsCategory1Types(line.result)
     \/ is_reference /\ ~IsReferenceTypes(line.result)
    THEN LF(line, Fail(fs, "BAD_CLASS_HARD", TRUE, line))
  ELSE LF(SetResultTypeToUnknown(SetRegisterType(line, vdst, line.result)), fs)

\* case Instruction::MOVE_RESULT, MOVE_RESULT_OBJECT
TransferMoveResult(inst, line, fs) ==
  TROf(CopyResultRegister1(line, fs, inst.vA, inst.op = "move-result-object"))

\* case Instruction::CONST_WIDE_16: could be long or double
TransferConstWide(inst, line, fs) ==
  TR(SetRegisterTypeWide(line, inst.vA, "ConstantLo", "ConstantHi"), fs, FALSE)

\* case Instruction::RETURN with the return type checked against itself
\* whatever the register holds.
ReturnChecked_AnySource(m, inst, line, fs1) ==
  IF ~(~IsInstanceConstructor(m) \/ line.this_initialized) THEN TR(line, fs1, FALSE)
  ELSE IF ~IsCategory1Types(m.return_type)
    THEN TR(line, Fail(fs1, "BAD_CLASS_HARD", TRUE, line), FALSE)
  ELSE TR(line, fs1, FALSE)

\* case Instruction::RETURN, after the constructor check left fs1: a byte
\* returned as boolean and an int returned as boolean, byte, short or char
\* are checked against the type of the register itself.
ReturnChecked(m, inst, line, fs1) ==
  LET return_type == m.return_type
      src_type == line.regs[inst.vA]
      use_src == \/ return_type = "Boolean" /\ src_type = "Byte"
                 \/ return_type \in {"Boolean", "Byte"} /\ src_type = "Integer"
  IN IF ~(~IsInstanceConstructor(m) \/ line.this_initialized) THEN TR(line, fs1, FALSE)
     ELSE IF ~IsCategory1Types(return_type)
       THEN TR(line, Fail(fs1, "BAD_CLASS_HARD", TRUE, line), FALSE)
     ELSE TR(line,
             VerifyRegisterType(line, fs1, inst.vA,
                                IF use_src THEN src_type ELSE return_type),
             FALSE)

\* case Instruction::RETURN
TransferReturn(m, inst, line, fs) ==
  ReturnChecked(m, inst, line,
                IF IsInstanceConstructor(m) THEN CheckConstructorReturn(line, fs)
                ELSE fs)

\* MethodVerifier::VerifyAPut for case Instruction::APUT: insn_type is
\* Integer and is_primitive holds.
VerifyAPut(inst, line, fs) ==
  LET index_type == line.regs[inst.vC]
      array_type == line.regs[inst.vB]
      value_type == line.regs[inst.vA]
      component_type == GetComponentType(array_type)
  IN IF ~IsIntegralTypes(index_type) THEN Fail(fs, "BAD_CLASS_HARD", TRUE, line)
     ELSE IF array_type = "Zero"
       THEN VerifyRegisterType(line, fs, inst.vA,
                               IF value_type = "Float" THEN value_type ELSE "Integer")
     ELSE IF ~IsArrayTypes(array_type) THEN Fail(fs, "BAD_CLASS_HARD", TRUE, line)
     ELSE IF IsIntegralTypes(component_type) /\ component_type # "Integer"
       THEN Fail(fs, "BAD_CLASS_HARD", TRUE, line)
     ELSE VerifyPrimitivePut(component_type, line, fs, inst.vA)

\* The switch over inst->Opcode() in CodeFlowVerifyInstruction.
Transfer(m, pc, line, fs) ==
  LET inst == InstructionAt(m, pc) IN
  CASE inst.op = "nop" -> TransferNop(line, fs)
    [] inst.op = "const" -> TransferConst(inst, line, fs)
    [] inst.op = "move-object" -> TransferMoveObject(inst, line, fs)
    [] inst.op = "move-exception" -> HandleMoveException(m, pc, inst, line, fs)
    [] inst.op = "return-void" -> TransferReturnVoid(m, line, fs)
    [] inst.op = "return-object" -> TransferReturnObject(m, inst, line, fs)
    [] inst.op = "monitor-enter" -> TransferMonitorEnter(m, pc, inst, line, fs)
    [] inst.op = "monitor-exit" -> TransferMonitorExit(m, inst, line, fs)
    [] inst.op = "check-cast" -> TransferCheckCast(inst, line, fs)
    [] inst.op = "new-instance" -> TransferNewInstance(inst, line, fs)
    [] inst.op = "throw" -> TransferThrow(inst, line, fs)
    [] inst.op \in {"goto", "goto/32"} -> TR(line, fs, FALSE)
    [] inst.op \in {"if-eqz", "if-nez"} -> TransferIfEqz(inst, line, fs)
    [] inst.op = "instance-of" -> TransferInstanceOf(inst, line, fs)
    [] inst.op = "packed-switch" -> TransferSwitch(inst, line, fs)
    [] inst.op = "iget" -> TransferIGet(m, inst, line, fs)
    [] inst.op = "iput" -> TransferIPut(m, inst, line, fs)
    [] inst.op = "invoke-direct" -> ResultSet(inst, TransferInvokeDirect(m, inst, line, fs))
    [] inst.op = "invoke-virtual" -> ResultSet(inst, TransferInvokeVirtual(m, inst, line, fs))
    [] inst.op = "invoke-static" -> ResultSet(inst, TR(line, fs, FALSE))
    [] inst.op \in {"move-result", "move-result-object"} -> TransferMoveResult(inst, line, fs)
    [] inst.op = "const-wide" -> TransferConstWide(inst, line, fs)
    [] inst.op = "return" -> TransferReturn(m, inst, line, fs)
    [] inst.op = "aput" -> TR(line, VerifyAPut(inst, line, fs), FALSE)

(* ------------------------------------------------------------------ *)
(* The static pre-pass                                                 *)
(* ------------------------------------------------------------------ *)

\* All pcs of a method.
Pcs(m) == 0..(InsnsSize(m) - 1)

\* ComputeWidthsAndCountOps without the test of where the walk ended.
ComputeWidthsAndCountOpsOk_AnyEnd(m) == Len(m.insns) > 0

\* MethodVerifier::ComputeWidthsAndCountOps: whether it succeeds.  It fails
\* for a code item without opcode and for a last instruction that runs
\* past the end of the code item.
ComputeWidthsAndCountOpsOk(m) ==
  /\ Len(m.insns) > 0
  /\ SumWidths(m.insns, Len(m.insns)) = InsnsSize(m)

\* MethodVerifier::ComputeWidthsAndCountOps: the flags after it.  Every
\* instruction that ends within the code item gets IsOpcode.
ComputeWidthsAndCountOps(m) ==
  [pc \in Pcs(m) |->
     [NoFlags EXCEPT
        !.opcode = \E i \in 1..Len(m.insns) :
                     PcOf(m, i) = pc /\ SumWidths(m.insns, i) <= InsnsSize(m)]]

\* The try items that ScanTryCatchBlocks rejects.
BadTry(m, flags, t) ==
  \/ t.count <= 0
  \/ t.start >= InsnsSize(m)
  \/ t.start + t.count > InsnsSize(m)
  \/ ~flags[t.start].opcode

\* CheckNotMoveResult
CheckNotMoveResult(m, pc) ==
  InstructionAt(m, pc).op \notin {"move-result", "move-result-object"}

\* The handlers that ScanTryCatchBlocks rejects: those that start at a bad
\* address or begin with move-result.  The address is not compared with the
\* size of the code: for an address outside the code GetInstructionFlags
\* and CheckNotMoveResult read beyond insn_flags_ and the instructions, and
\* the handler is rejected or not as that memory has it.
BadHandler(m, flags, h) ==
  IF h.addr \notin Pcs(m) THEN ~env.oob_opcode
  ELSE \/ ~flags[h.addr].opcode
       \/ ~CheckNotMoveResult(m, h.addr)

\* MethodVerifier::ScanTryCatchBlocks: whether it succeeds.
ScanTryCatchBlocksOk(m, flags) ==
  /\ \A k \in 1..Len(m.tries) : ~BadTry(m, flags, m.tries[k])
  /\ \A i \in 1..Len(AllHandlers(m, Len(m.tries))) :
       ~BadHandler(m, flags, AllHandlers(m, Len(m.tries))[i])

\* MethodVerifier::ScanTryCatchBlocks: the flags after it.  The try items
\* before the first rejected one are tagged; handlers are tagged only when
\* every try item passed, up to the first rejected handler.
ScanTryCatchBlocks(m, flags) ==
  LET hs == AllHandlers(m, Len(m.tries))
      tries_ok == \A k \in 1..Len(m.tries) : ~BadTry(m, flags, m.tries[k])
      tagged_tries ==
        {k \in 1..Len(m.tries) : \A j \in 1..k : ~BadTry(m, flags, m.tries[j])}
      tagged_handlers ==
        IF tries_ok
          THEN {i \in 1..Len(hs) : \A j \in 1..i : ~BadHandler(m, flags, hs[j])}
        ELSE {}
  IN [pc \in Pcs(m) |->
        [flags[pc] EXCEPT
           !.in_try = @ \/ (/\ flags[pc].opcode
                            /\ \E k \in tagged_tries :
                                 /\ m.tries[k].start <= pc
                                 /\ pc < m.tries[k].start + m.tries[k].count),
           !.branch_target = @ \/ \E i \in tagged_handlers : hs[i].addr = pc]]

\* The absolute targets an instruction at pc names: its branch target and
\* its switch targets.
BranchTargets(m, pc) ==
  LET inst == InstructionAt(m, pc)
  IN IF inst.op \in {"goto", "goto/32", "if-eqz", "if-nez"} THEN {pc + inst.off}
     ELSE IF inst.op = "packed-switch"
       THEN {pc + inst.targets[i] : i \in 1..Len(inst.targets)}
     ELSE {}

\* (int64_t) cur_offset + (int64_t) offset != (int64_t) (cur_offset + offset)
\* for a cur_offset below 2^31: the sum of the uint32_t and the int32_t is
\* made in uint32_t, so that it differs from the sum in int64_t exactly when
\* that one is negative.
BranchTargetOverflow(cur_offset, offset) == offset < -cur_offset

\* int32_t abs_offset = cur_offset + offset, for a cur_offset below 2^31:
\* the sum in uint32_t read as an int32_t, which is negative when the sum
\* passes the largest int32_t.
AbsOffset(cur_offset, offset) ==
  IF offset > kInt32Max - cur_offset
    THEN kInt32Min + (offset - (kInt32Max - cur_offset)) - 1
  ELSE cur_offset + offset

\* The test of a target without the test of IsOpcode.
InvalidTarget_AnyOffset(m, flags, abs_offset) ==
  \/ abs_offset < 0
  \/ abs_offset >= InsnsSize(m)

\* The test of a target that CheckBranchTarget and CheckSwitchTargets make.
InvalidTarget(m, flags, abs_offset) ==
  \/ abs_offset < 0
  \/ abs_offset >= InsnsSize(m)
  \/ ~flags[abs_offset].opcode

\* MethodVerifier::GetBranchOffset: selfOkay
SelfOkay(inst) == inst.op = "goto/32"

\* MethodVerifier::CheckBranchTarget: whether the branch at cur_offset
\* passes.
CheckBranchTarget(m, flags, cur_offset) ==
  LET inst == InstructionAt(m, cur_offset)
  IN /\ ~(~SelfOkay(inst) /\ inst.off = 0)
     /\ ~BranchTargetOverflow(cur_offset, inst.off)
     /\ ~InvalidTarget(m, flags, AbsOffset(cur_offset, inst.off))

\* MethodVerifier::CheckSwitchTargets: whether the switch at cur_offset
\* passes, for switch data that is well formed (in range, aligned, with
\* the signature of a packed switch).
CheckSwitchTargets(m, flags, cur_offset) ==
  LET inst == InstructionAt(m, cur_offset)
  IN \A targ \in 1..Len(inst.targets) :
       ~InvalidTarget(m, flags, AbsOffset(cur_offset, inst.targets[targ]))

\* The instructions with kVerifyVarArg or kVerifyVarArgNonZero, and those
\* with the latter.
VarArgOps ==
  {"invoke-direct", "invoke-virtual", "invoke-static", "filled-new-array"}
VarArgNonZeroOps == {"invoke-direct", "invoke-virtual"}

\* VRegA of a vararg instruction, the argument count.  The invoke-direct
\* and invoke-virtual of the model name one register, the receiver, in vB.
VarArgCount(inst) ==
  IF inst.op \in VarArgNonZeroOps THEN 1 ELSE inst.vA

\* Instruction::GetVarArgs: the five 4-bit register fields.
GetVarArgs(inst) ==
  IF inst.op \in VarArgNonZeroOps THEN <<inst.vB, 0, 0, 0, 0>> ELSE inst.args

\* CheckVarArgRegs without the test of the registers.
CheckVarArgRegs_Unchecked(m, inst, vA) == TRUE

\* MethodVerifier::CheckVarArgRegs: whether the first vA registers of the
\* instruction pass.
CheckVarArgRegs(m, inst, vA) ==
  (m.registers_size < 16 \/ kIsDebugBuild) =>
    \A idx \in 1..vA : ~(GetVarArgs(inst)[idx] >= m.registers_size)

\* MethodVerifier::CheckVarArgRangeRegs
CheckVarArgRangeRegs(m, vA, vC) == ~(vA + vC > m.registers_size)

\* MethodVerifier::VerifyInstruction, case kVerifyVarArg and
\* kVerifyVarArgNonZero
VerifyVarArg(m, inst) ==
  /\ ~(\/ inst.op \in VarArgNonZeroOps /\ VarArgCount(inst) = 0
       \/ VarArgCount(inst) > kMaxVarArgRegs)
  /\ CheckVarArgRegs(m, inst, VarArgCount(inst))

\* MethodVerifier::VerifyInstruction, case kVerifyVarArgRange (the range
\* instruction of the model may have no argument)
VerifyVarArgRange(m, inst) == CheckVarArgRangeRegs(m, inst.vA, inst.vC)

\* MethodVerifier::VerifyInstruction: the checks of kVerifyBranchTarget,
\* kVerifySwitchTargets, kVerifyVarArg and kVerifyVarArgRange.
VerifyInstruction(m, flags, pc) ==
  LET inst == InstructionAt(m, pc)
  IN /\ inst.op \in {"goto", "goto/32", "if-eqz", "if-nez"} => CheckBranchTarget(m, flags, pc)
     /\ inst.op = "packed-switch" => CheckSwitchTargets(m, flags, pc)
     /\ inst.op \in VarArgOps => VerifyVarArg(m, inst)
     /\ inst.op = "invoke-static/range" => VerifyVarArgRange(m, inst)

\* A failure of CheckNewInstance that lets the pre-pass go on, recorded
\* under another error type.
CheckNewInstance_NoClass(inst, fs, wl) ==
  IF inst.op = "new-instance" /\ inst.aux = "Class"
    THEN Fail(fs, "NO_CLASS", TRUE, wl)
  ELSE fs

\* MethodVerifier::CheckNewInstance for the type descriptors of the model
\* (all of classes): the failure state after it.  A new-instance of
\* java.lang.Class records VERIFY_ERROR_INSTANTIATION and passes.
CheckNewInstance(inst, fs, wl) ==
  IF inst.op = "new-instance" /\ inst.aux = "Class"
    THEN Fail(fs, "INSTANTIATION", TRUE, wl)
  ELSE fs

\* MethodVerifier::VerifyInstructions: the failure state after the static
\* checks of the instructions from the i-th on, in order up to the first
\* rejected one.
RECURSIVE VerifyInstructionsFailures(_, _, _, _, _)
VerifyInstructionsFailures(m, flags, fs, wl, i) ==
  IF i > Len(m.insns) \/ ~VerifyInstruction(m, flags, PcOf(m, i)) THEN fs
  ELSE VerifyInstructionsFailures(m, flags, CheckNewInstance(m.insns[i], fs, wl), wl, i + 1)

\* MethodVerifier::VerifyInstructions: whether it succeeds.
VerifyInstructionsOk(m, flags) ==
  \A pc \in OpcodePcs(m) : VerifyInstruction(m, flags, pc)

\* MethodVerifier::VerifyInstructions: the flags after it.  Instructions
\* are checked in order up to the first rejected one.
VerifyInstructions(m, flags) ==
  LET checked == {pc \in OpcodePcs(m) :
                    \A q \in OpcodePcs(m) : q <= pc => VerifyInstruction(m, flags, q)}
  IN [pc \in Pcs(m) |->
        [flags[pc] EXCEPT
           !.branch_target = \/ @
                             \/ pc = 0
                             \/ \E q \in checked : pc \in BranchTargets(m, q),
           !.is_return = @ \/ (pc \in checked
                               /\ "kReturn" \in FlagsOf(InstructionAt(m, pc).op))]]

(* ------------------------------------------------------------------ *)
(* Code flow: UpdateRegisters and the successors of an instruction     *)
(* ------------------------------------------------------------------ *)

\* PcToRegisterLineTable::Init: a line for the interesting dex pc (none is
\* set by Verify()) and for every branch target.
RegTableInit(m, flags) ==
  [pc \in Pcs(m) |->
     IF pc = interesting_dex_pc \/ flags[pc].branch_target THEN CreateLine(m)
     ELSE NoLine]

\* The registers the first n parameters take: a long counts as two.
RECURSIVE ParameterWidths(_, _)
ParameterWidths(descs, n) ==
  IF n = 0 THEN 0
  ELSE ParameterWidths(descs, n - 1) + (IF descs[n] = "J" THEN 2 ELSE 1)

\* SetTypesFromSignature that lets a signature pass that leaves ins
\* registers over.
SetTypesFromSignatureOk_AtMost(m) ==
  m.ins_size >= (IF m.is_static THEN 0 ELSE 1)
                  + ParameterWidths(m.param_types, Len(m.param_types))

\* MethodVerifier::SetTypesFromSignature: whether the parameters (with
\* the receiver) fill the ins registers exactly.
SetTypesFromSignatureOk(m) ==
  m.ins_size = (IF m.is_static THEN 0 ELSE 1)
                 + ParameterWidths(m.param_types, Len(m.param_types))

\* MethodVerifier::SetTypesFromSignature, the loop over the parameter
\* descriptors from the i-th on, the next of them in register reg.
RECURSIVE SetParameterTypes(_, _, _, _)
SetParameterTypes(line, descs, i, reg) ==
  IF i > Len(descs) THEN line
  ELSE IF descs[i] = "J"
    THEN SetParameterTypes(SetRegisterTypeWide(line, reg, "LongLo", "LongHi"),
                           descs, i + 1, reg + 2)
  ELSE SetParameterTypes(
         SetRegisterType(line, reg,
                         CASE descs[i] = "Z" -> "Boolean"
                           [] descs[i] = "B" -> "Byte"
                           [] descs[i] = "I" -> "Integer"
                           [] descs[i] = "F" -> "Float"
                           [] descs[i] = "[I" -> "IntArray"
                           [] descs[i] = "[F" -> "FloatArray"
                           [] OTHER -> descs[i]),
         descs, i + 1, reg + 1)

\* MethodVerifier::SetTypesFromSignature: the line of pc 0, the receiver
\* first and then the parameters.
SetTypesFromSignature(m, reg_line) ==
  LET this_reg == m.registers_size - m.ins_size
      with_this ==
        IF m.is_static THEN reg_line
        ELSE IF m.is_constructor
          THEN (IF m.declaring_class = "Object"
                  THEN SetRegisterType([reg_line EXCEPT !.this_initialized = TRUE],
                                       this_reg, m.declaring_class)
                ELSE SetRegisterType(reg_line, this_reg, "UninitThis"))
        ELSE SetRegisterType(reg_line, this_reg, m.declaring_class)
  IN SetParameterTypes(with_this, m.param_types, 1,
                       this_reg + (IF m.is_static THEN 0 ELSE 1))

\* AdjustReturnLine that leaves the registers of a value return alone.
AdjustReturnLine_ValueKept(m, ret_inst, line, fs) ==
  IF ret_inst.op = "return-void"
    THEN LF(MarkAllRegistersAsConflicts(m, line),
            IF IsInstanceConstructor(m) THEN CheckConstructorReturn(line, fs) ELSE fs)
  ELSE LF(line, fs)

\* AdjustReturnLine: sets up line for the return instruction ret_inst.
AdjustReturnLine(m, ret_inst, line, fs) ==
  IF ret_inst.op = "return-void"
    THEN LF(MarkAllRegistersAsConflicts(m, line),
            IF IsInstanceConstructor(m) THEN CheckConstructorReturn(line, fs) ELSE fs)
  ELSE LF(MarkAllRegistersAsConflictsExcept(m, line, ret_inst.vA), fs)

\* What UpdateRegisters returns and leaves behind: its result, the
\* instruction flags, the register table, the failure state (saved_line_
\* included) and work_line_.
UR(ok, flags, table, fs, wl) ==
  [ok |-> ok, flags |-> flags, table |-> table, fs |-> fs, wl |-> wl]

\* MethodVerifier::UpdateRegisters, the unvisited return instruction after
\* AdjustReturnLine left adj: "Directly bail if a hard failure was found."
UpdateReturnLine(flags, table, wl, next_insn, adj) ==
  UR(~adj.fs.hard,
     IF adj.fs.hard THEN flags ELSE [flags EXCEPT ![next_insn].changed = TRUE],
     [table EXCEPT ![next_insn] = CopyFromLine(@, adj.line)], adj.fs, wl)

\* UpdateRegisters setting the changed flag whatever MergeRegisters returns.
UpdateMergedLine_AlwaysChanged(flags, table, wl, next_insn, use_saved, update_merge_line, mr) ==
  IF mr.fs.hard
    THEN UR(FALSE, flags, [table EXCEPT ![next_insn] = mr.line], mr.fs, wl)
  ELSE UR(TRUE, [flags EXCEPT ![next_insn].changed = TRUE],
          [table EXCEPT ![next_insn] = mr.line],
          IF use_saved /\ update_merge_line
            THEN [mr.fs EXCEPT !.saved = CopyFromLine(@, mr.line)]
          ELSE mr.fs,
          IF ~use_saved /\ update_merge_line THEN CopyFromLine(wl, mr.line) ELSE wl)

\* UpdateRegisters that never marks a visited target as changed.
UpdateMergedLine_NeverChanged(flags, table, wl, next_insn, use_saved, update_merge_line, mr) ==
  UR(~mr.fs.hard, flags, [table EXCEPT ![next_insn] = mr.line], mr.fs, wl)

\* MethodVerifier::UpdateRegisters, the visited instruction after
\* MergeRegisters left mr.
UpdateMergedLine(flags, table, wl, next_insn, use_saved, update_merge_line, mr) ==
  IF mr.fs.hard
    THEN UR(FALSE, flags, [table EXCEPT ![next_insn] = mr.line], mr.fs, wl)
  ELSE UR(TRUE,
          IF mr.changed THEN [flags EXCEPT ![next_insn].changed = TRUE] ELSE flags,
          [table EXCEPT ![next_insn] = mr.line],
          IF use_saved /\ update_merge_line /\ mr.changed
            THEN [mr.fs EXCEPT !.saved = CopyFromLine(@, mr.line)]
          ELSE mr.fs,
          IF ~use_saved /\ update_merge_line /\ mr.changed THEN CopyFromLine(wl, mr.line)
          ELSE wl)

\* MethodVerifier::UpdateRegisters with merge_line given.
UpdateRegistersFrom(m, flags, table, fs, wl, next_insn, use_saved, update_merge_line, merge_line) ==
  IF ~IsVisitedOrChanged(flags[next_insn])
    THEN IF flags[next_insn].is_return
           THEN UpdateReturnLine(flags, table, wl, next_insn,
                  AdjustReturnLine(m, InstructionAt(m, next_insn), merge_line,
                                   VerifyMonitorStackEmpty(merge_line, fs, wl)))
         ELSE UR(TRUE, [flags EXCEPT ![next_insn].changed = TRUE],
                 [table EXCEPT ![next_insn] = CopyFromLine(@, merge_line)], fs, wl)
  ELSE UpdateMergedLine(flags, table, wl, next_insn, use_saved, update_merge_line,
                        MergeRegisters(m, table[next_insn], merge_line, fs, wl))

\* MethodVerifier::UpdateRegisters.  merge_line is saved_line_ when
\* use_saved, else work_line_.
UpdateRegisters(m, flags, table, fs, wl, next_insn, use_saved, update_merge_line) ==
  UpdateRegistersFrom(m, flags, table, fs, wl, next_insn, use_saved, update_merge_line,
                      IF use_saved THEN fs.saved ELSE wl)

\* UpdateRegisters applied in turn to the targets ts[i..] without updating
\* the merge line, stopping at the first one that returns false; u is what
\* the calls before left.
RECURSIVE UpdateRegistersSeq(_, _, _, _, _)
UpdateRegistersSeq(m, u, ts, i, use_saved) ==
  IF i > Len(ts) \/ ~u.ok THEN u
  ELSE UpdateRegistersSeq(m,
         UpdateRegisters(m, u.flags, u.table, u.fs, u.wl, ts[i], use_saved, FALSE),
         ts, i + 1, use_saved)

\* saved_line_ never refreshed.
SaveLineForHandlers_Stale(m, flags, pc, wl, sl) == sl

\* CodeFlowVerifyInstruction, before the switch: the line kept for the
\* exception handlers (saved_line_) when the instruction at pc is entered
\* with work line wl.
SaveLineForHandlers(m, flags, pc, wl, sl) ==
  LET op == InstructionAt(m, pc).op
  IN IF ("kThrow" \in FlagsOf(op) \/ IsCompatThrow(op)) /\ flags[pc].in_try
       THEN CopyFromLine(sl, wl)
     ELSE sl

\* The switch leaving the opcode flags of monitor-exit as they are.
FlagsAfterSwitch_KeepThrow(op) == FlagsOf(op)

\* The opcode flags the switch leaves: monitor-exit strips kThrow.
FlagsAfterSwitch(op) ==
  IF op = "monitor-exit" THEN FlagsOf(op) \ {"kThrow"} ELSE FlagsOf(op)

\* A pending runtime throw adds kThrow to the opcode flags.
ElevateFlags_Add(rt, flags) == IF rt THEN flags \cup {"kThrow"} ELSE flags

\* CodeFlowVerifyInstruction, after the switch: a pending runtime throw
\* elevates the opcode flags to kThrow.
ElevateFlags(rt, flags) == IF rt THEN {"kThrow"} ELSE flags

\* The catch-all test of the handler loop: a handler without type index or
\* one whose type resolves to java.lang.Throwable.
HasCatchAllHandler(try_item) ==
  \E i \in 1..Len(try_item.handlers) : try_item.handlers[i].type \in {"all", "Throwable"}

\* The handler addresses of a try item, in order.
HandlerTargets(try_item) ==
  [i \in 1..Len(try_item.handlers) |-> try_item.handlers[i].addr]

\* The monitor test with the exemption of the first monitor given to every
\* instruction.
MonitorNeedsCatchAll_Deeper(op, wl, has_catch_all_handler) ==
  /\ MonitorStackDepth(wl) > 0
  /\ ~has_catch_all_handler
  /\ MonitorStackDepth(wl) # 1

\* The monitor test exempting every monitor-enter.
MonitorNeedsCatchAll_AnyEnter(op, wl, has_catch_all_handler) ==
  /\ MonitorStackDepth(wl) > 0
  /\ ~has_catch_all_handler
  /\ op # "monitor-enter"

\* The monitor test after the handler loop: a held monitor needs a
\* catch-all, except after a monitor-enter that took the first monitor.
MonitorNeedsCatchAll(op, wl, has_catch_all_handler) ==
  /\ MonitorStackDepth(wl) > 0
  /\ ~has_catch_all_handler
  /\ (op # "monitor-enter" \/ MonitorStackDepth(wl) # 1)

\* The update of start_guess at the end of CodeFlowVerifyInstruction.
NextStartGuess(m, pc, flags, guess) ==
  LET inst == InstructionAt(m, pc)
  IN IF "kContinue" \in flags THEN pc + SizeInCodeUnits(inst)
     ELSE IF "kBranch" \in flags THEN pc + inst.off
     ELSE guess

\* The scan of CodeFlowVerifyMethod: the changed pcs from guess on.
ChangedFrom(m, flags, guess) == {pc \in Pcs(m) : pc >= guess /\ flags[pc].changed}

\* The last changed pc from guess on.
FirstChanged_Last(m, flags, guess) ==
  CHOOSE pc \in ChangedFrom(m, flags, guess) :
    \A q \in ChangedFrom(m, flags, guess) : pc >= q

\* The first changed pc from guess on (the set is not empty).
FirstChanged(m, flags, guess) ==
  CHOOSE pc \in ChangedFrom(m, flags, guess) :
    \A q \in ChangedFrom(m, flags, guess) : pc <= q

(* ------------------------------------------------------------------ *)
(* The methods and environments verified                               *)
(* ------------------------------------------------------------------ *)

\* An instance method of class This returning void, and a constructor of
\* class This.  With two registers v1 is `this`, with one register v0 is.
VoidMethod(insns, tries, regs) == Method(insns, tries, FALSE, "This", "Conflict", regs)
Constructor(insns, tries) == Method(insns, tries, TRUE, "This", "Conflict", 2)

\* A constructor that calls the superclass constructor before it writes a
\* field of its class.
CtorGood ==
  Constructor(<<InvokeDirectInit(1), Const(0, 1), IPut(0, 1, "own"), ReturnVoid>>, <<>>)

\* monitor-enter v0; return-void, and the same with monitor-exit v0 before
\* the return.
MonEnterReturn == VoidMethod(<<MonitorEnter(0), ReturnVoid>>, <<>>, 1)
MonBalanced == VoidMethod(<<MonitorEnter(0), MonitorExit(0), ReturnVoid>>, <<>>, 1)

\* The methods written by hand.  Constructors: without constructor call,
\* reading and writing a field of the class before the constructor call, and
\* the constructor of java.lang.Object.  Monitors: a monitor-exit in a try
\* block with a typed handler at depth one and at depth two, a throwing
\* instruction under a monitor with a typed handler and with a catch-all,
\* and a monitor-exit on the wrong register.  Control flow: loops (one that
\* widens a constant), a switch, a branch out of the code, a handler inside
\* an instruction, an instruction past the end of the code, and code running
\* off its end.  Exception edges: handlers of a new-instance of a class and
\* of an abstract class, of a check-cast, and a handler type that is no
\* Throwable.  Static checks: a new-instance of java.lang.Class, alone and
\* before a branch with offset zero.
Catalogue ==
  {CtorGood,
   Constructor(<<Nop, ReturnVoid>>, <<>>),
   Constructor(<<IGet(0, 1, "own"), InvokeDirectInit(1), ReturnVoid>>, <<>>),
   Constructor(<<Const(0, 1), IPut(0, 1, "own"), InvokeDirectInit(1), ReturnVoid>>, <<>>),
   Method(<<ReturnVoid>>, <<>>, TRUE, "Object", "Conflict", 2),
   MonEnterReturn,
   MonBalanced,
   VoidMethod(<<MonitorEnter(0), MonitorExit(0), ReturnVoid>>,
              <<TryItem(1, 1, <<Handler("Exception", 2)>>)>>, 1),
   VoidMethod(<<MonitorEnter(0), MonitorEnter(0), MonitorExit(0), MonitorExit(0),
                ReturnVoid>>,
              <<TryItem(2, 1, <<Handler("Exception", 4)>>)>>, 1),
   VoidMethod(<<MonitorEnter(1), NewInstance(0, "Other"), MonitorExit(1), ReturnVoid>>,
              <<TryItem(1, 2, <<Handler("Exception", 4)>>)>>, 2),
   VoidMethod(<<MonitorEnter(1), NewInstance(0, "Other"), MonitorExit(1), ReturnVoid,
                MoveException(0), MonitorExit(1), Throw(0)>>,
              <<TryItem(1, 2, <<Handler("Exception", 5), Handler("all", 5)>>)>>, 2),
   VoidMethod(<<MonitorEnter(1), Const(0, 0), MonitorExit(0), ReturnVoid>>,
              <<TryItem(2, 1, <<Handler("all", 3)>>)>>, 2),
   VoidMethod(<<Const(0, 0), IfEqz(0, -1), ReturnVoid>>, <<>>, 2),
   VoidMethod(<<Const(0, 0), IfEqz(1, 4), Const(0, 1), Goto(-3), ReturnVoid>>, <<>>, 2),
   VoidMethod(<<Const(0, 1), PackedSwitch(0, <<3, 4>>), Const(0, 2), Nop, ReturnVoid>>,
              <<>>, 2),
   VoidMethod(<<Goto(5), ReturnVoid>>, <<>>, 2),
   VoidMethod(<<NewInstance(0, "Other"), ReturnVoid>>,
              <<TryItem(0, 2, <<Handler("all", 1)>>)>>, 2),
   [VoidMethod(<<Nop, NewInstance(0, "Other")>>, <<>>, 2) EXCEPT !.insns_size = 2],
   VoidMethod(<<Nop, Nop>>, <<>>, 2),
   VoidMethod(<<NewInstance(0, "Other"), ReturnVoid, MoveException(0), Throw(0)>>,
              <<TryItem(0, 2, <<Handler("Exception", 3)>>)>>, 2),
   VoidMethod(<<Const(0, 1), NewInstance(0, "Abstract"), IfEqz(0, 3), ReturnVoid,
                ReturnVoid>>,
              <<TryItem(1, 2, <<Handler("all", 6)>>)>>, 2),
   VoidMethod(<<CheckCast(1, "Other"), ReturnVoid, MoveException(0), ReturnVoid>>,
              <<TryItem(0, 2, <<Handler("Throwable", 3)>>)>>, 2),
   VoidMethod(<<NewInstance(0, "Other"), ReturnVoid, MoveException(0), ReturnVoid>>,
              <<TryItem(0, 2, <<Handler("Other", 3)>>)>>, 2),
   VoidMethod(<<NewInstance(0, "Class"), ReturnVoid>>, <<>>, 2),
   VoidMethod(<<NewInstance(0, "Class"), Goto(0)>>, <<>>, 2)}

\* Methods that return a register and methods that store into an array,
\* over the kinds their registers get from a parameter or a constant: a
\* return of a parameter and of a constant for each return type, a return
\* of a wide constant and of a long, a return in a void method, a
\* signature with a parameter too many, and aput v1, v2, v3 for each kind of
\* value, array and index, and into the null constant.
\* Methods with a result register: move-result after an invoke that returns
\* an int, a reference or nothing, after another instruction, as the first
\* instruction, as the target of a branch, a switch or a handler, and as
\* the successor of an invoke that throws.
ResultMethods ==
  {VoidMethod(<<InvokeStatic(r), mr, ReturnVoid>>, <<>>, 2) :
     r \in {"Integer", "This", "Conflict"}, mr \in {MoveResult(0), MoveResultObject(0)}}
  \cup {VoidMethod(<<InvokeStatic("Integer"), i, MoveResult(0), ReturnVoid>>, <<>>, 2) :
          i \in {Nop, Const(0, 0), MoveResult(1), InvokeStatic("This"), IfEqz(1, 2)}}
  \cup {VoidMethod(<<MoveResult(0), ReturnVoid>>, <<>>, 2),
        VoidMethod(<<InvokeStatic("Integer"), MoveResult(0), Goto(-1)>>, <<>>, 2),
        VoidMethod(<<InvokeStatic("Integer"), MoveResult(0), IfEqz(0, -1), ReturnVoid>>,
                   <<>>, 2),
        VoidMethod(<<InvokeStatic("Integer"), IfEqz(1, 3), InvokeStatic("This"),
                     MoveResult(0), ReturnVoid>>, <<>>, 2),
        VoidMethod(<<InvokeStatic("Integer"), MoveResult(0), PackedSwitch(0, <<3>>),
                     ReturnVoid>>, <<>>, 2),
        VoidMethod(<<InvokeStatic("Integer"), MoveResult(0), ReturnVoid>>,
                   <<TryItem(0, 3, <<Handler("all", 3)>>)>>, 2),
        VoidMethod(<<InvokeStatic("Integer"), MoveResult(0), ReturnVoid>>,
                   <<TryItem(0, 3, <<Handler("all", 4)>>)>>, 2),
        VoidMethod(<<InvokeVirtual(0), MoveResult(0), ReturnVoid>>, <<>>, 2),
        VoidMethod(<<InvokeStatic("Integer"), MoveResult(0), ReturnVoid, Goto(-2)>>,
                   <<>>, 2),
        VoidMethod(<<InvokeStatic("Integer"), MoveResult(0), IfEqz(1, -4), ReturnVoid,
                     Goto(-4)>>, <<>>, 2),
        VoidMethod(<<MonitorExit(1), InvokeStatic("Integer"), MoveResult(0), ReturnVoid>>,
                   <<>>, 2)}

\* Methods with an instance-of before an if-eqz or if-nez: v2 is `this`,
\* taken for the class orig by a check-cast, tested for the class cast; the
\* same with the tested register a copy of v2, with the if a branch target,
\* with the branch to the next instruction, and with the instance-of
\* writing the register it reads.
PeepholeIfs == {IfEqz(0, 3), IfNez(0, 3)}
PeepholeCasts ==
  {<<"Object", "This">>, <<"Object", "Other">>, <<"Throwable", "Exception">>,
   <<"This", "Other">>, <<"This", "Object">>, <<"This", "This">>}
PeepholeMethods ==
  {VoidMethod(<<CheckCast(2, c[1]), InstanceOf(0, 2, c[2]), if, Nop, Nop, ReturnVoid>>,
              <<>>, 3) : c \in PeepholeCasts, if \in PeepholeIfs}
  \cup {VoidMethod(<<CheckCast(2, "Object"), MoveObject(1, 2), InstanceOf(0, 1, "This"), if,
                     Nop, Nop, ReturnVoid>>, <<>>, 3) : if \in PeepholeIfs}
  \cup {VoidMethod(<<CheckCast(2, "Object"), InstanceOf(0, 2, "This"), if, Nop,
                     Goto(-3), ReturnVoid>>, <<>>, 3) : if \in PeepholeIfs}
  \cup {VoidMethod(<<CheckCast(2, "Object"), InstanceOf(0, 2, "This"), if, Nop,
                     ReturnVoid>>, <<>>, 3) : if \in {IfEqz(0, 2), IfNez(0, 2)}}
  \cup {VoidMethod(<<CheckCast(2, "Object"), InstanceOf(2, 2, "This"), if, Nop, Nop,
                     ReturnVoid>>, <<>>, 3) : if \in {IfEqz(2, 3), IfNez(2, 3)}}
  \cup {VoidMethod(<<CheckCast(2, "Object"), InstanceOf(0, 2, "This"), if, Nop, Nop,
                     ReturnVoid>>,
                   <<TryItem(2, 4, <<Handler("all", 6)>>)>>, 3) : if \in PeepholeIfs}

\* Methods with the pattern of the peephole optimization on a register that
\* holds the null constant.
ZeroPeepholeMethods ==
  {VoidMethod(<<Const(2, 0), InstanceOf(0, 2, cls), if, Nop, Nop, ReturnVoid>>, <<>>, 3) :
     cls \in {"This", "Other", "Object"}, if \in PeepholeIfs}

\* Methods whose successors are not in the order of their addresses: a
\* switch whose table names the later target first, and an invoke in a try
\* block whose handler list names the later handler first.
OrderMethods ==
  {VoidMethod(<<Const(0, 1), PackedSwitch(0, <<4, 3>>), Const(0, 2), Nop, ReturnVoid>>,
              <<>>, 2),
   VoidMethod(<<Const(0, 1), PackedSwitch(0, <<4, 3, 4>>), Const(0, 2), Nop, ReturnVoid>>,
              <<TryItem(0, 4, <<Handler("Exception", 5), Handler("all", 4)>>)>>, 2),
   VoidMethod(<<InvokeStatic("Conflict"), Nop, Nop, ReturnVoid>>,
              <<TryItem(0, 3, <<Handler("Exception", 4), Handler("all", 3)>>)>>, 2),
   VoidMethod(<<InvokeVirtual(1), IfEqz(1, -3), Nop, ReturnVoid>>,
              <<TryItem(0, 5, <<Handler("all", 6), Handler("Exception", 5)>>)>>, 2)}

\* Methods with branches and switches to every kind of target: backward, to
\* itself, before the code, past its end, into an instruction, and at the
\* ends of the range of an int32_t.
BranchMethods ==
  {VoidMethod(<<Goto32(0), ReturnVoid>>, <<>>, 2),
   VoidMethod(<<Nop, Goto32(-1), ReturnVoid>>, <<>>, 2),
   VoidMethod(<<IfEqz(1, -1), ReturnVoid>>, <<>>, 2),
   VoidMethod(<<Nop, Goto32(kInt32Max), ReturnVoid>>, <<>>, 2),
   VoidMethod(<<Nop, Goto32(kInt32Min), ReturnVoid>>, <<>>, 2),
   VoidMethod(<<Goto(2), IfEqz(1, 2), ReturnVoid>>, <<>>, 2),
   VoidMethod(<<Goto(5), ReturnVoid>>, <<>>, 2)}
  \cup {VoidMethod(<<Const(0, 1), PackedSwitch(0, ts), ReturnVoid>>, <<>>, 2) :
          ts \in {<<3, kInt32Max>>, <<kInt32Min>>, <<1>>, <<-2>>, <<9>>, <<0>>, <<3, -1>>}}

TypedMethods ==
  {WithParameters(Method(<<ReturnValue(1)>>, <<>>, FALSE, "This", r, 2), <<d>>, 2) :
     r \in {"Boolean", "Byte", "Integer", "Float"}, d \in {"Z", "B", "I", "F"}}
  \cup {Method(<<Const(0, c), ReturnValue(0)>>, <<>>, FALSE, "This", r, 2) :
          c \in 0..2, r \in {"Boolean", "Byte", "Integer", "Float"}}
  \cup {Method(<<ConstWide(0), ReturnValue(0)>>, <<>>, FALSE, "This", "Boolean", 3),
        WithParameters(Method(<<ReturnValue(1)>>, <<>>, FALSE, "This", "Boolean", 3),
                       <<"J">>, 3),
        Method(<<Const(0, 0), ReturnValue(0)>>, <<>>, FALSE, "This", "Conflict", 2),
        WithParameters(Method(<<ReturnVoid>>, <<>>, FALSE, "This", "Conflict", 2),
                       <<"I">>, 1)}
  \cup {WithParameters(Method(<<APut(1, 2, 3), ReturnVoid>>, <<>>, FALSE, "This",
                              "Conflict", 4),
                       <<v, a, i>>, 4) :
          v \in {"F", "I", "B"}, a \in {"[I", "[F", "Other"}, i \in {"I", "F"}}
  \cup {WithParameters(Method(<<Const(0, 0), APut(2, 0, 3), ReturnVoid>>, <<>>, FALSE,
                              "This", "Conflict", 4),
                       <<v, "I">>, 3) :
          v \in {"F", "I"}}

\* The instructions of the generated bodies.
GenAlphabet ==
  {Nop, Const(0, 0), Const(0, 1), MoveObject(0, 1), MonitorEnter(1), MonitorExit(1),
   CheckCast(1, "Other"), NewInstance(0, "Abstract"), Throw(1), IfEqz(1, 2),
   IGet(0, 1, "own"), IGet(0, 1, "other"), IGet(0, 1, "missing"), IPut(0, 1, "own"),
   IPut(0, 1, "other"), InvokeDirectInit(1), InvokeVirtual(1), InvokeVirtual(0)}

\* The generated bodies: up to MaxGenLen instructions and a return-void.
GenBodies ==
  {Append(b, ReturnVoid) : b \in UNION {[1..n -> GenAlphabet] : n \in 1..MaxGenLen}}

\* The try item of a generated method: all but the return-void is covered,
\* the return-void is the handler.
GenTry(insns, type) ==
  <<TryItem(0, SumWidths(insns, Len(insns)) - 1,
            <<Handler(type, SumWidths(insns, Len(insns)) - 1)>>)>>

Generated ==
  {Method(b, <<>>, c, "This", "Conflict", 2) : b \in GenBodies, c \in BOOLEAN}
    \cup {Method(b, GenTry(b, "Exception"), c, "This", "Conflict", 2) :
            b \in GenBodies, c \in BOOLEAN}

\* Methods with every kind of signature: static or not, constructor or not,
\* of java.lang.Object or not, with int, long and reference parameters, in a
\* file of five registers of which none to six are declared as ins.
SignatureMethods ==
  {WithParameters([Method(<<ReturnVoid>>, <<>>, ctor, cls, "Conflict", 5)
                     EXCEPT !.is_static = static],
                  descs, ins) :
     ctor \in BOOLEAN, static \in BOOLEAN, cls \in {"This", "Object"},
     descs \in {<<>>, <<"I">>, <<"J">>, <<"J", "I">>, <<"I", "J">>, <<"Other", "J", "Z">>},
     ins \in 0..6}

\* Code items whose walk does not end at the declared size: no code unit at
\* all, and a last instruction that reaches one or two code units past the
\* end.
TruncatedMethods ==
  {VoidMethod(<<>>, <<>>, 2)}
  \cup {[VoidMethod(insns, <<>>, 2) EXCEPT !.insns_size = @ - cut] :
          insns \in {<<IfEqz(1, 2)>>, <<Nop, IfEqz(1, 2)>>, <<ReturnVoid, Goto32(0)>>,
                     <<Nop, Nop, PackedSwitch(1, <<0>>)>>},
          cut \in 1..2}

\* Methods with a vararg instruction after the return, where code flow does
\* not come: with a count of up to 7, registers up to 15, and register
\* files of up to 17 registers.
VarArgMethods ==
  {VoidMethod(<<ReturnVoid, FilledNewArray(vA, args)>>, <<>>, regs) :
     vA \in 0..7,
     args \in {<<0, 1, 0, 1, 0>>, <<1, 2, 3, 4, 5>>, <<0, 0, 0, 0, 15>>, <<15, 0, 0, 0, 0>>,
               <<14, 14, 14, 14, 15>>},
     regs \in {2, 6, 15, 16, 17}}

\* Methods with a range instruction after the return: a window that is
\* empty, within the register file, up to its end, and past it.
VarArgRangeMethods ==
  {VoidMethod(<<ReturnVoid, InvokeStaticRange(vA, vC)>>, <<>>, regs) :
     vA \in {0, 1, 2, 255}, vC \in {0, 1, 2, 15, 65535}, regs \in {2, 3, 17}}

\* Methods with a try item that is empty, starts at the end of the code or
\* past it, reaches past the end of the code, starts inside an instruction,
\* or ends inside one.
TryMethods ==
  {VoidMethod(<<IfEqz(1, 2), Throw(1), ReturnVoid>>,
              <<TryItem(start, count, <<Handler("all", 3)>>)>>, 2) :
     start \in 0..5, count \in 0..4}

\* Methods with a loop whose body holds instructions that are not branch
\* targets and is run again with a wider line, and with a monitor-enter
\* before or after the loop.
LoopMethods ==
  {VoidMethod(<<Const(0, 0), IfEqz(1, 5), Nop, Const(0, 1), Goto(-4),
                MonitorEnter(1), MonitorExit(1), ReturnVoid>>, <<>>, 2),
   VoidMethod(<<MonitorEnter(1), Const(0, 0), IfEqz(1, 5), Nop, Const(0, 1), Goto(-4),
                MonitorExit(1), ReturnVoid>>, <<>>, 2)}

\* Methods that overwrite the register a monitor was entered through while
\* the monitor is held.
UntrackedLockMethods ==
  {VoidMethod(<<MonitorEnter(1), Const(1, 0), Nop, ReturnVoid>>, <<>>, 2),
   VoidMethod(<<MoveObject(0, 1), MonitorEnter(1), MonitorEnter(0), Const(1, 0), Nop,
                ReturnVoid>>, <<>>, 2)}

\* Methods with a catch handler of a class that does not resolve: alone,
\* beside a handler of a resolved class, behind an instruction that fails
\* softly, and reached with a monitor held that is not released.
UnresolvedHandlerMethods ==
  {VoidMethod(<<InvokeVirtual(1), ReturnVoid, MoveException(0), ReturnVoid>>,
              <<TryItem(0, 3, hs)>>, 2) :
     hs \in {<<Handler(UnresolvedClass, 4)>>,
              <<Handler(UnresolvedClass, 4), Handler("Exception", 4)>>}}
    \cup {VoidMethod(<<IGet(0, 1, "missing"), ReturnVoid, MoveException(0), ReturnVoid>>,
                     <<TryItem(0, 2, <<Handler(UnresolvedClass, 3)>>)>>, 2),
          VoidMethod(<<MonitorEnter(1), InvokeVirtual(1), MonitorExit(1), ReturnVoid,
                       MoveException(0), ReturnVoid>>,
                     <<TryItem(1, 3, <<Handler(UnresolvedClass, 6), Handler("all", 7)>>)>>,
                     2)}

\* Methods whose last instruction is not a return: it can continue, branch
\* or throw.
WalkOffMethods ==
  {VoidMethod(<<Nop, inst>>, <<>>, 2) : inst \in GenAlphabet \cup {IfEqz(1, -1), Goto(-1)}}

\* The dex pc of the move-exception of a body.
MoveExceptionPc(b) ==
  SumWidths(b, (CHOOSE k \in 1..Len(b) : b[k].op = "move-exception") - 1)

\* Methods with a move-exception at pc 0, at no handler, at a handler that
\* is also fallen, branched or switched into, behind an instruction that
\* fails softly, in code that is never run, and at a handler reached by
\* the throw only.
MoveExceptionMethods ==
  {VoidMethod(<<MoveException(0), ReturnVoid>>, <<>>, 2),
   VoidMethod(<<MoveException(0), InvokeVirtual(1), ReturnVoid>>,
              <<TryItem(1, 3, <<Handler("all", 0)>>)>>, 2),
   VoidMethod(<<Nop, MoveException(0), ReturnVoid>>, <<>>, 2),
   VoidMethod(<<Goto(2), Nop, MoveException(0), ReturnVoid>>, <<>>, 2),
   VoidMethod(<<IfEqz(1, 3), ReturnVoid, MoveException(0), ReturnVoid>>, <<>>, 2),
   VoidMethod(<<ReturnVoid, MoveException(0), ReturnVoid>>, <<>>, 2),
   VoidMethod(<<Const(0, 1), PackedSwitch(0, <<4>>), ReturnVoid, MoveException(0),
                ReturnVoid>>, <<>>, 2)}
  \cup {VoidMethod(b, <<TryItem(0, 3, <<Handler(type, MoveExceptionPc(b))>>)>>, 2) :
          b \in {<<InvokeVirtual(1), ReturnVoid, MoveException(0), ReturnVoid>>,
                 <<InvokeVirtual(1), Goto(2), ReturnVoid, MoveException(0), ReturnVoid>>,
                 <<InvokeVirtual(1), IfEqz(1, 3), ReturnVoid, MoveException(0),
                   ReturnVoid>>,
                 <<InvokeVirtual(1), MoveException(0), ReturnVoid>>,
                 <<InvokeVirtual(1), Const(0, 1), PackedSwitch(0, <<4>>), ReturnVoid,
                   MoveException(0), ReturnVoid>>},
          type \in {"all", "Exception"}}
  \cup {VoidMethod(<<IGet(0, 1, fld), MoveException(0), ReturnVoid>>,
                   <<TryItem(0, 2, <<Handler("all", 2)>>)>>, 2) :
          fld \in {"own", "missing"}}

\* Methods with an instruction that can throw and is its own catch handler.
SelfHandlerBodies ==
  {<<Const(0, 1), inst, ReturnVoid>> :
     inst \in {NewInstance(0, "Other"), IGet(0, 1, "own"), MonitorEnter(1),
               CheckCast(1, "Other"), Throw(1), InvokeVirtual(1)}}

SelfHandlerMethods ==
  {VoidMethod(b, <<TryItem(0, SumWidths(b, 2), <<Handler(type, SumWidths(b, 1))>>)>>, 2) :
     b \in SelfHandlerBodies, type \in {"all", "Exception"}}

\* Methods with a catch handler whose address is not within the code: at
\* its end and past it, on a try block without and with an instruction that
\* can throw.
OutsideHandlerMethods ==
  {VoidMethod(<<Nop, ReturnVoid>>, <<TryItem(0, 1, <<Handler(type, addr)>>)>>, 2) :
     type \in {"all", "Exception"}, addr \in {2, 7}}
  \cup {VoidMethod(<<Nop, Nop, ReturnVoid>>,
                   <<TryItem(0, 1, <<Handler("all", 2), Handler("Exception", 3)>>)>>, 2)}
  \cup {VoidMethod(<<InvokeVirtual(1), ReturnVoid>>,
                   <<TryItem(0, 3, <<Handler("all", addr)>>)>>, 2) : addr \in {4, 9}}
  \cup {VoidMethod(<<InvokeVirtual(1), ReturnVoid, Nop, ReturnVoid>>,
                   <<TryItem(0, 3, <<Handler("Exception", 7), Handler("all", 4)>>)>>, 2)}

\* An environment: IsAotMode(), SDK level at least S_V2, whether the
\* register line raises VERIFY_ERROR_LOCKING with a pending exception, and
\* what a read of IsOpcode() beyond the end of insn_flags_ yields.
Env(aot_mode, sdk_s_v2, locking_exc, oob_opcode) ==
  [aot_mode |-> aot_mode, sdk_s_v2 |-> sdk_s_v2, locking_exc |-> locking_exc,
   oob_opcode |-> oob_opcode]

\* The environments of the methods that make no read beyond insn_flags_.
Envs ==
  {Env(FALSE, FALSE, FALSE, FALSE),
   Env(FALSE, FALSE, TRUE, FALSE),
   Env(TRUE, FALSE, TRUE, FALSE),
   Env(FALSE, TRUE, FALSE, FALSE)}

\* The environments of the methods with a handler outside the code: the
\* memory beyond insn_flags_ holds any value.
OutsideEnvs == {Env(FALSE, FALSE, FALSE, oob_opcode) : oob_opcode \in BOOLEAN}

(* ------------------------------------------------------------------ *)
(* Verify()                                                            *)
(* ------------------------------------------------------------------ *)

\* What the run has done so far, kept for the properties: the number of
\* instructions processed, the work line on entry to the instruction being
\* processed, and what the instruction did: whether a transfer function ran
\* with a hard failure pending, whether it marked a runtime throw, where the
\* lines went, whether a throwing instruction (other than a monitor
\* instruction, or a monitor-exit) ran in a try block without catch-all with
\* a monitor held before and after it, and how the uninitialized `this` was
\* used.
NoObs ==
  [steps |-> 0, pre_line |-> NoLine, after_hard |-> FALSE, rt_marked |-> FALSE,
   propagated |-> {}, handler_merged |-> FALSE, handler_line |-> NoLine,
   monitor_throw |-> FALSE, monitor_exit_throw |-> FALSE, this_use |-> FALSE,
   this_hard_use |-> FALSE, rescanned |-> FALSE, prepass |-> "running",
   transfer_failures |-> <<>>, locks_recorded |-> FALSE, selected_after_record |-> FALSE,
   prev_insn_idx |-> kDexNoIndex, insn_idx |-> kDexNoIndex,
   branch_merged |-> NoLine, fallthrough_merged |-> NoLine, edges |-> <<>>,
   entered |-> {}, merged |-> {}, stray_changed |-> {}]

(* ------------------------------------------------------------------ *)
(* RegTypeCache (reg_type_cache.cc)                                    *)
(* ------------------------------------------------------------------ *)

\* Entries the cache may hold beyond the primitives and small constants.
MaxEntries == 3

\* "no class": a null mirror::Class.
NoClass == "null"

\* The descriptors requests are made with, and the classes behind them.
PrimitiveDescriptors == {"I", "V"}
ArrayDescriptors == {"[LA;", "[I", "[LU;"}
ReferenceDescriptors ==
  {"Ljava/lang/Object;", "LA;", "LU;", "LBad"} \cup ArrayDescriptors
Descriptors == PrimitiveDescriptors \cup ReferenceDescriptors
Classes == {"Object", "A", "A[]", "int[]", "int"}
\* The type ids of the dex file under verification.
TypeIds == {"LA;", "LU;", "I"}
AllocationPcs == {0, 2}

\* "LBad" is a descriptor that is not well formed.
IsValidDescriptor(descriptor) == descriptor # "LBad"

\* The class linker: LU; and [LU; name classes that cannot be found.
ResolveClass(descriptor) ==
  CASE descriptor = "Ljava/lang/Object;" -> "Object"
    [] descriptor = "LA;" -> "A"
    [] descriptor = "[LA;" -> "A[]"
    [] descriptor = "[I" -> "int[]"
    [] OTHER -> NoClass

GetDescriptor(klass) ==
  CASE klass = "Object" -> "Ljava/lang/Object;"
    [] klass = "A" -> "LA;"
    [] klass = "A[]" -> "[LA;"
    [] klass = "int[]" -> "[I"
    [] OTHER -> "I"

IsPrimitive(klass) == klass = "int"
IsArrayClass(klass) == klass \in {"A[]", "int[]"}
IsFinal(klass) == IsArrayClass(klass)
\* Class A is defined by the dex file under verification.
InDexFile(klass) == klass = "A"

\* A RegType of the cache. Its id is its index in entries_.
RegTypeEntry(kind, descriptor, klass, pc, resolved, unresolved) ==
  [kind |-> kind, descriptor |-> descriptor, klass |-> klass,
   allocation_pc |-> pc, resolved_part |-> resolved, unresolved_types |-> unresolved]

PlainEntry(kind, descriptor, klass) ==
  RegTypeEntry(kind, descriptor, klass, kDexNoIndex, 0, {})

\* FillPrimitiveAndSmallConstantTypes: the entries every cache starts with.
PrimitiveEntries ==
  << PlainEntry("Undefined", "", NoClass),
     PlainEntry("Conflict", "", NoClass),
     PlainEntry("Zero", "", NoClass),
     PlainEntry("Integer", "I", "int") >>

kNumPrimitivesAndSmallConstants == Len(PrimitiveEntries)

CacheId(kind) ==
  CHOOSE i \in DOMAIN PrimitiveEntries : PrimitiveEntries[i].kind = kind

EmptyCache ==
  [entries |-> PrimitiveEntries,
   klass_entries |-> <<>>,
   entries_for_type_index |-> [type_index \in TypeIds |-> 0],
   returned |-> 0]

\* What a request returns: the cache after it and the id of the entry.
Found(c, id) == [cache |-> c, id |-> id]

\* AddEntry: push the entry; an entry with a class is also indexed by class.
AddEntry(c, e) ==
  Found([c EXCEPT !.entries = Append(@, e),
                  !.klass_entries =
                     IF e.klass # NoClass
                     THEN Append(@, <<e.klass, Len(c.entries) + 1>>)
                     ELSE @],
        Len(c.entries) + 1)

\* The first entry past the primitives that satisfies Match, 0 when none.
FindEntry(c, Match(_)) ==
  LET S == {i \in (kNumPrimitivesAndSmallConstants + 1)..Len(c.entries) :
              Match(c.entries[i])}
  IN IF S = {} THEN 0 ELSE CHOOSE i \in S : \A j \in S : i <= j

MatchDescriptor(entry, descriptor) == descriptor = entry.descriptor

From_NoLookup(c, descriptor) ==
  IF ResolveClass(descriptor) # NoClass
  THEN AddEntry(c, PlainEntry("Reference", descriptor, ResolveClass(descriptor)))
  ELSE IF IsValidDescriptor(descriptor)
       THEN AddEntry(c, PlainEntry("UnresolvedReference", descriptor, NoClass))
       ELSE Found(c, CacheId("Conflict"))

From(c, descriptor) ==
  LET i == FindEntry(c, LAMBDA e : MatchDescriptor(e, descriptor))
  IN IF i # 0 THEN Found(c, i)
     ELSE IF ResolveClass(descriptor) # NoClass
          THEN AddEntry(c, PlainEntry("Reference", descriptor, ResolveClass(descriptor)))
          ELSE IF IsValidDescriptor(descriptor)
               THEN AddEntry(c, PlainEntry("UnresolvedReference", descriptor, NoClass))
               ELSE Found(c, CacheId("Conflict"))

FromDescriptor(c, descriptor) ==
  IF descriptor \in PrimitiveDescriptors
  THEN Found(c, IF descriptor = "I" THEN CacheId("Integer") ELSE CacheId("Conflict"))
  ELSE From(c, descriptor)

FromTypeIndexUncached(c, type_index) ==
  LET r == FromDescriptor(c, type_index)
  IN Found([r.cache EXCEPT !.entries_for_type_index[type_index] = r.id], r.id)

FromTypeIndex(c, type_index) ==
  IF c.entries_for_type_index[type_index] # 0
  THEN Found(c, c.entries_for_type_index[type_index])
  ELSE FromTypeIndexUncached(c, type_index)

FromClass(c, klass) ==
  IF IsPrimitive(klass) THEN Found(c, CacheId("Integer"))
  ELSE IF ~IsArrayClass(klass) /\ InDexFile(klass)
       THEN FromTypeIndex(c, GetDescriptor(klass))
       ELSE LET S == {i \in DOMAIN c.klass_entries : c.klass_entries[i][1] = klass}
            IN IF S # {}
               THEN Found(c, c.klass_entries[CHOOSE i \in S : \A j \in S : i <= j][2])
               ELSE AddEntry(c, PlainEntry("Reference", GetDescriptor(klass), klass))

JavaLangObject(c) == FromClass(c, "Object")

MakeUnresolvedReference(c) ==
  AddEntry(c, PlainEntry("UnresolvedReference", "a", NoClass))

UnresolvedKinds ==
  {"UnresolvedReference", "UnresolvedUninitializedReference",
   "UnresolvedUninitializedThisReference", "UnresolvedMergedReference"}
UninitializedKinds ==
  {"UninitializedReference", "UnresolvedUninitializedReference",
   "UninitializedThisReference", "UnresolvedUninitializedThisReference"}

IsUnresolvedTypes(entry) == entry.kind \in UnresolvedKinds
IsUnresolvedMergedReference(entry) == entry.kind = "UnresolvedMergedReference"
IsJavaLangObject(entry) == entry.kind = "Reference" /\ entry.klass = "Object"

\* RegType::IsArrayTypes of the entry with this id.
EntryIsArrayTypes(c, id) ==
  LET e == c.entries[id]
  IN IF IsUnresolvedMergedReference(e)
     THEN IF e.resolved_part # CacheId("Zero")
          THEN c.entries[e.resolved_part].descriptor \in ArrayDescriptors
          ELSE \E u \in e.unresolved_types :
                 /\ \A v \in e.unresolved_types : u <= v
                 /\ c.entries[u].descriptor \in ArrayDescriptors
     ELSE IF IsUnresolvedTypes(e) THEN e.descriptor \in ArrayDescriptors
          ELSE e.klass # NoClass /\ IsArrayClass(e.klass)

EntryIsObjectArrayTypes(c, id) ==
  EntryIsArrayTypes(c, id) /\ c.entries[id].klass # "int[]"

\* RegType::SafeMerge of two resolved parts.
SafeMerge(c, l, r) ==
  IF l = r THEN Found(c, l)
  ELSE IF l = CacheId("Zero") THEN Found(c, r)
  ELSE IF r = CacheId("Zero") THEN Found(c, l)
  ELSE IF c.entries[l].kind = "Reference" /\ c.entries[r].kind = "Reference"
       THEN IF IsJavaLangObject(c.entries[l]) THEN Found(c, l)
            ELSE IF IsJavaLangObject(c.entries[r]) THEN Found(c, r)
            ELSE JavaLangObject(c)
       ELSE Found(c, CacheId("Conflict"))

UnresolvedTypesOf(c, id) ==
  IF IsUnresolvedMergedReference(c.entries[id]) THEN c.entries[id].unresolved_types
  ELSE IF IsUnresolvedTypes(c.entries[id]) THEN {id} ELSE {}

ResolvedPartOf(c, id) ==
  IF IsUnresolvedMergedReference(c.entries[id]) THEN c.entries[id].resolved_part
  ELSE IF IsUnresolvedTypes(c.entries[id]) THEN CacheId("Zero") ELSE id

UnresolvedIsArray(c, id) ==
  IsUnresolvedTypes(c.entries[id]) /\ EntryIsArrayTypes(c, id)

\* The tail of FromUnresolvedMerge, after the resolved parts were merged
\* into the entry m.id of the cache m.cache.
MergedEntry(m, types, l_arr, r_arr, l_exists, r_exists) ==
  LET merged_is_array == EntryIsArrayTypes(m.cache, m.id)
      i == FindEntry(m.cache,
                     LAMBDA e : /\ IsUnresolvedMergedReference(e)
                                /\ e.resolved_part = m.id
                                /\ e.unresolved_types = types)
  IN IF m.id = CacheId("Conflict") THEN Found(m.cache, CacheId("Conflict"))
     ELSE IF IsJavaLangObject(m.cache.entries[m.id]) THEN m
     ELSE IF /\ l_arr \/ r_arr \/ merged_is_array
             /\ \/ merged_is_array /\ ~EntryIsObjectArrayTypes(m.cache, m.id)
                \/ ~l_arr /\ l_exists
                \/ ~r_arr /\ r_exists
                \/ ~merged_is_array
          THEN JavaLangObject(m.cache)
          ELSE IF i # 0 THEN Found(m.cache, i)
               ELSE AddEntry(m.cache,
                      RegTypeEntry("UnresolvedMergedReference", "", NoClass,
                                   kDexNoIndex, m.id, types))

FromUnresolvedMerge_LeftOnly(c, left, right) ==
  MergedEntry(Found(c, ResolvedPartOf(c, left)),
              UnresolvedTypesOf(c, left) \cup UnresolvedTypesOf(c, right),
              UnresolvedIsArray(c, left), UnresolvedIsArray(c, right),
              ResolvedPartOf(c, left) # left, ResolvedPartOf(c, right) # right)

FromUnresolvedMerge(c, left, right) ==
  MergedEntry(SafeMerge(c, ResolvedPartOf(c, left), ResolvedPartOf(c, right)),
              UnresolvedTypesOf(c, left) \cup UnresolvedTypesOf(c, right),
              UnresolvedIsArray(c, left), UnresolvedIsArray(c, right),
              ResolvedPartOf(c, left) # left, ResolvedPartOf(c, right) # right)

\* Uninitialized(type, allocation_pc)
UninitializedAt(c, type, allocation_pc) ==
  LET t == c.entries[type]
      i == IF IsUnresolvedTypes(t)
           THEN FindEntry(c, LAMBDA e : /\ e.kind = "UnresolvedUninitializedReference"
                                        /\ e.allocation_pc = allocation_pc
                                        /\ e.descriptor = t.descriptor)
           ELSE FindEntry(c, LAMBDA e : /\ e.kind = "UninitializedReference"
                                        /\ e.allocation_pc = allocation_pc
                                        /\ e.klass = t.klass)
  IN IF i # 0 THEN Found(c, i)
     ELSE IF IsUnresolvedTypes(t)
          THEN AddEntry(c, RegTypeEntry("UnresolvedUninitializedReference",
                                        t.descriptor, NoClass, allocation_pc, 0, {}))
          ELSE AddEntry(c, RegTypeEntry("UninitializedReference",
                                        t.descriptor, t.klass, allocation_pc, 0, {}))

UninitializedThisArgument(c, type) ==
  LET t == c.entries[type]
      i == IF IsUnresolvedTypes(t)
           THEN FindEntry(c, LAMBDA e : /\ e.kind = "UnresolvedUninitializedThisReference"
                                        /\ e.descriptor = t.descriptor)
           ELSE FindEntry(c, LAMBDA e : /\ e.kind = "UninitializedThisReference"
                                        /\ e.klass = t.klass)
  IN IF i # 0 THEN Found(c, i)
     ELSE IF IsUnresolvedTypes(t)
          THEN AddEntry(c, PlainEntry("UnresolvedUninitializedThisReference",
                                      t.descriptor, NoClass))
          ELSE AddEntry(c, PlainEntry("UninitializedThisReference",
                                      t.descriptor, t.klass))

FromUninitialized(c, uninit_type) ==
  LET u == c.entries[uninit_type]
      by_descriptor == FindEntry(c, LAMBDA e : /\ e.kind = "UnresolvedReference"
                                               /\ e.descriptor = u.descriptor)
      by_class == FindEntry(c, LAMBDA e : e.kind = "Reference" /\ e.klass = u.klass)
  IN IF IsUnresolvedTypes(u)
     THEN IF by_descriptor # 0 THEN Found(c, by_descriptor)
          ELSE AddEntry(c, PlainEntry("UnresolvedReference", u.descriptor, NoClass))
     ELSE IF u.kind = "UninitializedThisReference" /\ ~IsFinal(u.klass)
          THEN IF by_class # 0 THEN Found(c, by_class)
               ELSE AddEntry(c, PlainEntry("Reference", "", u.klass))
          ELSE IF ~IsPrimitive(u.klass)
               THEN IF by_class # 0 THEN Found(c, by_class)
                    ELSE AddEntry(c, PlainEntry("Reference", u.descriptor, u.klass))
               ELSE Found(c, CacheId("Conflict"))


Constructed ==
  /\ \/ /\ method \in Catalogue \cup TypedMethods \cup ResultMethods \cup PeepholeMethods
                         \cup OrderMethods \cup BranchMethods \cup TryMethods
                         \cup SelfHandlerMethods \cup LoopMethods
                         \cup WalkOffMethods \cup MoveExceptionMethods
                         \cup ZeroPeepholeMethods
                         \cup UntrackedLockMethods
                         \cup UnresolvedHandlerMethods
                         \cup VarArgMethods
                         \cup VarArgRangeMethods \cup TruncatedMethods
                         \cup SignatureMethods
                         \cup Generated
        /\ env \in Envs
     \/ /\ method \in OutsideHandlerMethods
        /\ env \in OutsideEnvs
  /\ insn_flags = [pc \in Pcs(method) |-> NoFlags]
  /\ reg_table = [pc \in Pcs(method) |-> NoLine]
  /\ work_line = NoLine
  /\ saved_line = NoLine
  /\ work_insn_idx = kDexNoIndex
  /\ start_guess = 0
  /\ opcode_flags = {}
  /\ exc_handler_unreachable = FALSE
  /\ failures = <<>>
  /\ encountered_failure_types = {}
  /\ have_pending_hard_failure = FALSE
  /\ have_pending_runtime_throw_failure = FALSE
  /\ verify_result = "none"
  /\ obs = NoObs
  /\ cache = EmptyCache
  /\ branch_line = NoLine
  /\ fallthrough_line = NoLine

\* A verifier made to verify the method: no dex pc is of interest.
Init ==
  /\ Constructed
  /\ phase = "start"
  /\ interesting_dex_pc = kDexNoIndex
  /\ monitor_enter_dex_pcs = [is_null |-> TRUE, list |-> <<>>]

\* The failure state fs becomes the verifier's.
SetFailState(fs) ==
  /\ failures' = fs.failures
  /\ encountered_failure_types' = fs.encountered
  /\ have_pending_hard_failure' = fs.hard
  /\ have_pending_runtime_throw_failure' = fs.rt
  /\ saved_line' = fs.saved

\* Verify() returns.
Return(result) ==
  /\ phase' = "done"
  /\ verify_result' = IF result THEN "true" ELSE "false"

\* A pre-pass step fails from the failure state fs:
\* Fail(VERIFY_ERROR_BAD_CLASS_HARD) and return false.
PrePassFails(fs) ==
  /\ SetFailState(Fail(fs, "BAD_CLASS_HARD", TRUE, work_line))
  /\ Return(FALSE)
  /\ obs' = [obs EXCEPT !.prepass = "failed"]

\* Verify(): "Consistency-check of the register counts."
BadRegisterCounts(m) == m.ins_size > m.registers_size

\* Verify(): the check of the register counts, and
\* bool result = ComputeWidthsAndCountOps();
DoComputeWidthsAndCountOps ==
  /\ phase = "start"
  /\ insn_flags' = IF BadRegisterCounts(method) THEN insn_flags
                   ELSE ComputeWidthsAndCountOps(method)
  /\ IF ~BadRegisterCounts(method) /\ ComputeWidthsAndCountOpsOk(method)
       THEN /\ phase' = "scan_try"
            /\ UNCHANGED <<failures, encountered_failure_types, have_pending_hard_failure,
                           have_pending_runtime_throw_failure, saved_line, verify_result,
                           obs>>
     ELSE PrePassFails(CurFailState)
  /\ UNCHANGED <<cache, peephole_vars, interesting_dex_pc, monitor_enter_dex_pcs,
                 method, env, reg_table, work_line, work_insn_idx, start_guess,
                 opcode_flags, exc_handler_unreachable>>

\* Verify(): result = result && ScanTryCatchBlocks();
DoScanTryCatchBlocks ==
  /\ phase = "scan_try"
  /\ insn_flags' = ScanTryCatchBlocks(method, insn_flags)
  /\ IF ScanTryCatchBlocksOk(method, insn_flags)
       THEN /\ phase' = "verify_insns"
            /\ UNCHANGED <<failures, encountered_failure_types, have_pending_hard_failure,
                           have_pending_runtime_throw_failure, saved_line, verify_result,
                           obs>>
     ELSE PrePassFails(CurFailState)
  /\ UNCHANGED <<cache, peephole_vars, interesting_dex_pc, monitor_enter_dex_pcs,
                 method, env, reg_table, work_line, work_insn_idx, start_guess,
                 opcode_flags, exc_handler_unreachable>>

\* The static checks let code flow start whatever they found.
VerifyInstructionsDone_GoesOn(fs) ==
  /\ phase' = "code_flow"
  /\ SetFailState(IF VerifyInstructionsOk(method, insn_flags) THEN fs
                  ELSE Fail(fs, "BAD_CLASS_HARD", TRUE, work_line))
  /\ obs' = [obs EXCEPT !.prepass = IF VerifyInstructionsOk(method, insn_flags)
                                      THEN "passed" ELSE "failed"]
  /\ UNCHANGED verify_result

\* The static checks are done with the failure state fs.
VerifyInstructionsDone(fs) ==
  IF VerifyInstructionsOk(method, insn_flags)
    THEN /\ phase' = "code_flow"
         /\ SetFailState(fs)
         /\ obs' = [obs EXCEPT !.prepass = "passed"]
         /\ UNCHANGED verify_result
  ELSE PrePassFails(fs)

\* Verify(): result = result && VerifyInstructions();
DoVerifyInstructions ==
  /\ phase = "verify_insns"
  /\ insn_flags' = VerifyInstructions(method, insn_flags)
  /\ VerifyInstructionsDone(
       VerifyInstructionsFailures(method, insn_flags, CurFailState, work_line, 1))
  /\ UNCHANGED <<cache, peephole_vars, interesting_dex_pc, monitor_enter_dex_pcs,
                 method, env, reg_table, work_line, work_insn_idx, start_guess,
                 opcode_flags, exc_handler_unreachable>>

\* VerifyCodeFlow() up to the loop of CodeFlowVerifyMethod(): the register
\* table, the two lines, the types of the signature, and pc 0 changed.  A
\* signature that does not fit the ins registers fails hard.
DoVerifyCodeFlow ==
  /\ phase = "code_flow"
  /\ work_line' = CreateLine(method)
  /\ start_guess' = 0
  /\ IF SetTypesFromSignatureOk(method)
       THEN /\ reg_table' = [RegTableInit(method, insn_flags) EXCEPT
                               ![0] = SetTypesFromSignature(method, CreateLine(method))]
            /\ saved_line' = CreateLine(method)
            /\ have_pending_runtime_throw_failure' = FALSE
            /\ insn_flags' = [insn_flags EXCEPT ![0].changed = TRUE]
            /\ phase' = "select"
            /\ UNCHANGED <<failures, encountered_failure_types, have_pending_hard_failure,
                           verify_result>>
     ELSE /\ reg_table' = RegTableInit(method, insn_flags)
          /\ SetFailState(Fail([CurFailState EXCEPT !.saved = CreateLine(method)],
                               "BAD_CLASS_HARD", TRUE, CreateLine(method)))
          /\ Return(FALSE)
          /\ UNCHANGED insn_flags
  /\ UNCHANGED <<cache, peephole_vars, interesting_dex_pc, monitor_enter_dex_pcs,
                 method, env, work_insn_idx, opcode_flags, exc_handler_unreachable, obs>>

(* ------------------------------------------------------------------ *)
(* CodeFlowVerifyMethod(): the loop                                    *)
(* ------------------------------------------------------------------ *)

\* No changed instruction from start_guess on, and start_guess is not 0:
\* try again from the top.
RescanFromTop ==
  /\ phase = "select"
  /\ ChangedFrom(method, insn_flags, start_guess) = {}
  /\ start_guess # 0
  /\ start_guess' = 0
  /\ obs' = [obs EXCEPT !.rescanned = TRUE]
  /\ UNCHANGED <<cache, peephole_vars, interesting_dex_pc, monitor_enter_dex_pcs,
                 method, env, phase, insn_flags, reg_table, work_line, saved_line,
                 work_insn_idx, opcode_flags, exc_handler_unreachable, failures,
                 encountered_failure_types, have_pending_hard_failure,
                 have_pending_runtime_throw_failure, verify_result>>

\* The loop ends as soon as no instruction from start_guess on is changed.
AllFlagsClear_NoRescan ==
  /\ phase = "select"
  /\ ChangedFrom(method, insn_flags, start_guess) = {}
  /\ Return(TRUE)
  /\ UNCHANGED <<cache, peephole_vars, interesting_dex_pc, monitor_enter_dex_pcs,
                 method, env, insn_flags, reg_table, work_line, saved_line, work_insn_idx,
                 start_guess, opcode_flags, exc_handler_unreachable, failures,
                 encountered_failure_types, have_pending_hard_failure,
                 have_pending_runtime_throw_failure, obs>>

\* All flags are clear: the loop ends and Verify() returns true.
AllFlagsClear ==
  /\ phase = "select"
  /\ ChangedFrom(method, insn_flags, start_guess) = {}
  /\ start_guess = 0
  /\ Return(TRUE)
  /\ UNCHANGED <<cache, peephole_vars, interesting_dex_pc, monitor_enter_dex_pcs,
                 method, env, insn_flags, reg_table, work_line, saved_line, work_insn_idx,
                 start_guess, opcode_flags, exc_handler_unreachable, failures,
                 encountered_failure_types, have_pending_hard_failure,
                 have_pending_runtime_throw_failure, obs>>

\* The first changed instruction from start_guess on becomes the work
\* instruction; a branch target loads its line from the table.
\* The depths at which some register of the line holds a lock.
LockDepths(line) == UNION {line.reg_to_lock_depths[r] : r \in DOMAIN line.reg_to_lock_depths}

\* The depths of a set in increasing order, as the std::map iterates them.
RECURSIVE DepthsInOrder(_)
DepthsInOrder(depths) ==
  IF depths = {} THEN <<>>
  ELSE LET d == CHOOSE x \in depths : \A y \in depths : x <= y
       IN <<d>> \o DepthsInOrder(depths \ {d})

\* The locks the work line holds, by depth: the registers that hold the
\* lock and the dex pc of its monitor-enter. A monitor-exit through a
\* register that does not hold the top lock pops monitors_ and leaves the
\* depth with the registers that hold it; monitors_[depth] is then read
\* past the end, and past_end stands for what the read gives.
HandleMonitorDexPcsWorkLine_NoLocks(line, past_end) == <<>>

HandleMonitorDexPcsWorkLine(line, past_end) ==
  LET DexLockInfo(d) ==
        [dex_registers |-> {r \in DOMAIN line.reg_to_lock_depths :
                              d \in line.reg_to_lock_depths[r]},
         dex_pc |-> IF d < Len(line.monitors) THEN line.monitors[d + 1] ELSE past_end]
      depths == DepthsInOrder(LockDepths(line))
  IN [i \in 1..Len(depths) |-> DexLockInfo(depths[i])]

\* What a read past the end of monitors_ may give.
PastEndValues == {kDexNoIndex, 0}

\* kMonitorDexPCs: the run is one of FindLocksAtDexPc.
kMonitorDexPCs == ~monitor_enter_dex_pcs.is_null

SelectInsn ==
  /\ phase = "select"
  /\ ChangedFrom(method, insn_flags, start_guess) # {}
  /\ LET insn_idx == FirstChanged(method, insn_flags, start_guess)
     IN /\ work_insn_idx' = insn_idx
        /\ work_line' = IF insn_flags[insn_idx].branch_target
                          THEN CopyFromLine(work_line, reg_table[insn_idx])
                        ELSE work_line
        /\ IF kMonitorDexPCs /\ insn_idx = interesting_dex_pc
           THEN /\ \E past_end \in PastEndValues :
                     monitor_enter_dex_pcs' =
                       [is_null |-> FALSE,
                        list |-> HandleMonitorDexPcsWorkLine(work_line', past_end)]
                /\ obs' = [obs EXCEPT !.locks_recorded = TRUE,
                                      !.selected_after_record = obs.locks_recorded]
           ELSE /\ UNCHANGED monitor_enter_dex_pcs
                /\ obs' = [obs EXCEPT !.selected_after_record = obs.locks_recorded]
  /\ phase' = "dispatch"
  /\ UNCHANGED <<cache, peephole_vars, interesting_dex_pc, method, env, insn_flags,
                 reg_table, saved_line, start_guess, opcode_flags,
                 exc_handler_unreachable, failures, encountered_failure_types,
                 have_pending_hard_failure, have_pending_runtime_throw_failure,
                 verify_result>>

(* ------------------------------------------------------------------ *)
(* CodeFlowVerifyInstruction()                                         *)
(* ------------------------------------------------------------------ *)

\* Whether the instruction uses a register that holds the uninitialized
\* `this`.
UsesUninitThis(inst, line) ==
  \/ inst.op \in {"move-object", "iget", "iput", "invoke-direct", "invoke-virtual",
                  "instance-of"}
       /\ line.regs[inst.vB] = "UninitThis"
  \/ inst.op \in {"return-object", "monitor-enter", "monitor-exit", "check-cast", "throw",
                  "if-eqz", "if-nez", "packed-switch", "iput"}
       /\ line.regs[inst.vA] = "UninitThis"

\* The uses of the uninitialized `this` that the verifier lets pass: the
\* constructor call, the access to a field of the class itself, a copy, a
\* null test and a lock.
AllowedUninitThisUse(inst, line) ==
  \/ inst.op = "invoke-direct"
  \/ inst.op = "iget" /\ inst.aux = "own"
  \/ inst.op = "iput" /\ inst.aux = "own" /\ line.regs[inst.vA] # "UninitThis"
  \/ inst.op \in {"move-object", "if-eqz", "if-nez", "monitor-enter", "monitor-exit"}

\* An instruction that can throw is processed in a try block without
\* catch-all handler, with a monitor held before (line) and after it (after).
ThrowsWithMonitorHeld(op, line, after) ==
  /\ "kThrow" \in FlagsOf(op)
  /\ insn_flags[work_insn_idx].in_try
  /\ MonitorStackDepth(line) > 0
  /\ MonitorStackDepth(after) > 0
  /\ ~HasCatchAllHandler(FindTryItem(method, work_insn_idx))

\* What CodeFlowVerifyInstruction leaves when the switch ran the transfer
\* function of inst with result tr: a pending hard failure rejects the
\* method, a pending runtime throw elevates the opcode flags.
Dispatched(inst, tr, uses) ==
  /\ work_line' = IF tr.fs.hard \/ JustSetResult(inst) THEN tr.line
                  ELSE SetResultTypeToUnknown(tr.line)
  /\ SetFailState(tr.fs)
  /\ branch_line' = PeepholeLines(method, insn_flags, work_insn_idx, work_line).branch_line
  /\ fallthrough_line' =
       PeepholeLines(method, insn_flags, work_insn_idx, work_line).fallthrough_line
  /\ exc_handler_unreachable' = tr.unreach
  /\ opcode_flags' = ElevateFlags(tr.fs.rt, FlagsAfterSwitch(inst.op))
  /\ obs' = [obs EXCEPT
               !.steps = @ + 1,
               !.pre_line = work_line,
               !.prev_insn_idx = obs.insn_idx,
               !.insn_idx = work_insn_idx,
               !.transfer_failures =
                   SubSeq(tr.fs.failures, Len(failures) + 1, Len(tr.fs.failures)),
               !.after_hard = @ \/ have_pending_hard_failure,
               !.rt_marked = tr.fs.rt /\ ~tr.fs.hard,
               !.propagated = {},
               !.edges = <<>>,
               !.entered = {e \in @ : e[1] # work_insn_idx} \cup {<<work_insn_idx, work_line>>},
               !.merged = {e \in @ : e[1] # work_insn_idx},
               !.branch_merged = NoLine,
               !.fallthrough_merged = NoLine,
               !.handler_merged = FALSE,
               !.handler_line = NoLine,
               !.monitor_throw =
                   @ \/ (/\ inst.op \notin {"monitor-enter", "monitor-exit"}
                         /\ ThrowsWithMonitorHeld(inst.op, work_line, tr.line)),
               !.monitor_exit_throw =
                   @ \/ (/\ inst.op = "monitor-exit"
                         /\ ThrowsWithMonitorHeld(inst.op, work_line, tr.line)),
               !.this_use =
                   @ \/ (uses /\ ~(inst.op = "invoke-direct"
                                   \/ (inst.op = "iput" /\ inst.aux = "own"
                                       /\ work_line.regs[inst.vA] # "UninitThis"))),
               !.this_hard_use = @ \/ (uses /\ ~AllowedUninitThisUse(inst, work_line))]
  /\ IF tr.fs.hard
       THEN Return(FALSE)
     ELSE phase' = "branch" /\ UNCHANGED verify_result

\* The instruction is decoded, saved_line_ is set and the switch runs the
\* transfer function.
DispatchInsn(inst) ==
  Dispatched(inst,
             Transfer(method, work_insn_idx, work_line,
                      FailState(failures, encountered_failure_types,
                                have_pending_hard_failure,
                                have_pending_runtime_throw_failure,
                                SaveLineForHandlers(method, insn_flags, work_insn_idx,
                                                    work_line, saved_line))),
             UsesUninitThis(inst, work_line))

\* CodeFlowVerifyInstruction() up to the test of the pending failures.
Dispatch ==
  /\ phase = "dispatch"
  /\ DispatchInsn(InstructionAt(method, work_insn_idx))
  /\ UNCHANGED <<cache, interesting_dex_pc, monitor_enter_dex_pcs,
                 method, env, insn_flags, reg_table, work_insn_idx, start_guess>>

\* What a propagation step leaves in the variables it may write.
SetUpdated(u) ==
  /\ insn_flags' = u.flags
  /\ reg_table' = u.table
  /\ work_line' = u.wl
  /\ SetFailState(u.fs)

\* What the calls of UpdateRegisters start from.
CurUpdate == UR(TRUE, insn_flags, reg_table, CurFailState, work_line)

\* CheckNotMoveException letting every instruction pass.
CheckNotMoveException_Unchecked(m, pc) == TRUE

\* CheckNotMoveException
CheckNotMoveException(m, pc) == InstructionAt(m, pc).op # "move-exception"

\* CheckNotMoveExceptionOrMoveResult
CheckNotMoveExceptionOrMoveResult(m, pc) ==
  CheckNotMoveException(m, pc) /\ CheckNotMoveResult(m, pc)

\* A check of the propagation fails hard: Fail and return false.
PropagationFails ==
  /\ SetFailState(Fail(CurFailState, "BAD_CLASS_HARD", TRUE, work_line))
  /\ Return(FALSE)
  /\ UNCHANGED <<insn_flags, reg_table, work_line, obs>>

\* A propagation step is skipped.
SkipTo(next_phase) ==
  /\ phase' = next_phase
  /\ UNCHANGED <<insn_flags, reg_table, work_line, saved_line, failures,
                 encountered_failure_types, have_pending_hard_failure,
                 have_pending_runtime_throw_failure, verify_result, obs>>

\* Handle "branch", after UpdateRegisters(target, merge_line) left u.
BranchUpdated(target, merge_line, u) ==
  /\ SetUpdated(u)
  /\ obs' = [obs EXCEPT !.propagated = @ \cup {target}, !.branch_merged = merge_line,
                        !.edges = Append(@, <<"branch", target>>),
                        !.merged = @ \cup {<<work_insn_idx, target, merge_line>>}]
  /\ IF u.ok THEN phase' = "switch" /\ UNCHANGED verify_result
     ELSE Return(FALSE)

\* Handle "branch" for the branch to target.
BranchTo(target) ==
  IF ~CheckNotMoveExceptionOrMoveResult(method, target) THEN PropagationFails
  ELSE LET merge_line == IF branch_line # NoLine THEN branch_line ELSE work_line
       IN BranchUpdated(target, merge_line,
                        UpdateRegistersFrom(method, insn_flags, reg_table, CurFailState,
                                            work_line, target, FALSE, FALSE, merge_line))

\* Handle "branch": the branch target gets the branch line of the
\* peephole optimization if there is one, else the work line.
PropagateBranch ==
  /\ phase = "branch"
  /\ IF "kBranch" \notin opcode_flags THEN SkipTo("switch")
     ELSE BranchTo(work_insn_idx + InstructionAt(method, work_insn_idx).off)
  /\ UNCHANGED <<cache, peephole_vars, interesting_dex_pc, monitor_enter_dex_pcs,
                 method, env, work_insn_idx, start_guess, opcode_flags,
                 exc_handler_unreachable>>

\* The switch targets up to the first move-exception or move-result* among
\* them.
RECURSIVE TargetsBeforeMoveException(_, _, _)
TargetsBeforeMoveException(m, ts, i) ==
  IF i > Len(ts) \/ ~CheckNotMoveExceptionOrMoveResult(m, ts[i]) THEN <<>>
  ELSE <<ts[i]>> \o TargetsBeforeMoveException(m, ts, i + 1)

\* A hard failure after the updates left u: Fail and return false.
FailsAfter(u) ==
  /\ insn_flags' = u.flags
  /\ reg_table' = u.table
  /\ work_line' = u.wl
  /\ SetFailState(Fail(u.fs, "BAD_CLASS_HARD", TRUE, u.wl))
  /\ Return(FALSE)

\* Handle "switch", after the targets ts of abs were updated and left u.
SwitchUpdated(abs, ts, u) ==
  IF ~u.ok
    THEN SetUpdated(u) /\ Return(FALSE) /\ UNCHANGED obs
  ELSE IF Len(ts) < Len(abs)
    THEN FailsAfter(u) /\ UNCHANGED obs
  ELSE /\ SetUpdated(u)
       /\ obs' = [obs EXCEPT !.propagated = @ \cup {abs[i] : i \in 1..Len(abs)},
                             !.edges = @ \o [i \in 1..Len(ts) |-> <<"switch", ts[i]>>],
                             !.merged = @ \cup {<<work_insn_idx, ts[i], work_line>> :
                                                  i \in 1..Len(ts)}]
       /\ phase' = "exception"
       /\ UNCHANGED verify_result

\* Handle "switch" for the absolute targets abs, of which ts come before
\* the first that is a move-exception.
SwitchTo(abs, ts) ==
  SwitchUpdated(abs, ts, UpdateRegistersSeq(method, CurUpdate, ts, 1, FALSE))

\* The switch targets walked from the last entry of the table to the first.
SwitchTargets_Reversed(m, pc) ==
  LET targets == InstructionAt(m, pc).targets
  IN [i \in 1..Len(targets) |-> pc + targets[Len(targets) + 1 - i]]

\* The absolute targets of the switch instruction at pc.
SwitchTargets(m, pc) ==
  [i \in 1..Len(InstructionAt(m, pc).targets) |-> pc + InstructionAt(m, pc).targets[i]]

\* Handle "switch": every switch target gets the work line.
PropagateSwitch ==
  /\ phase = "switch"
  /\ IF "kSwitch" \notin opcode_flags THEN SkipTo("exception")
     ELSE SwitchTo(SwitchTargets(method, work_insn_idx),
                   TargetsBeforeMoveException(method,
                                              SwitchTargets(method, work_insn_idx), 1))
  /\ UNCHANGED <<cache, peephole_vars, interesting_dex_pc, monitor_enter_dex_pcs,
                 method, env, work_insn_idx, start_guess, opcode_flags,
                 exc_handler_unreachable>>

\* The handlers of try_item were updated from saved_line_ and left u: a
\* held monitor needs a catch-all handler.
HandlersUpdated(op, try_item, u) ==
  /\ obs' = [obs EXCEPT !.handler_merged = TRUE, !.handler_line = saved_line,
                        !.edges = @ \o [i \in 1..Len(try_item.handlers) |->
                                          <<"handler", HandlerTargets(try_item)[i]>>],
                        !.merged = @ \cup {<<work_insn_idx, HandlerTargets(try_item)[i],
                                             saved_line>> :
                                             i \in 1..Len(try_item.handlers)}]
  /\ IF ~u.ok
       THEN SetUpdated(u) /\ Return(FALSE)
     ELSE IF MonitorNeedsCatchAll(op, u.wl, HasCatchAllHandler(try_item))
       THEN FailsAfter(u)
     ELSE /\ SetUpdated(u)
          /\ phase' = "fallthrough"
          /\ UNCHANGED verify_result

\* The handler addresses of the try item that are within the code, in the
\* order of the handler list.
TargetsWithinCode(m, try_item) ==
  SelectSeq(HandlerTargets(try_item), LAMBDA t : t \in Pcs(m))

\* The handler addresses of the try item that are not within the code.
TargetsOutsideCode(m, try_item) ==
  {HandlerTargets(try_item)[i] : i \in 1..Len(try_item.handlers)} \ Pcs(m)

\* UpdateRegisters for handler addresses that are not within the code reads
\* reg_table_ and insn_flags_ beyond their ends, writes through the line it
\* read and sets the changed flag beyond the end of insn_flags_: the
\* verifier either stops there for good, or the writes land outside the
\* verifier's own state and the loop goes on.
ThrowOutsideCode(op, try_item) ==
  \/ /\ phase' = "crashed"
     /\ UNCHANGED <<insn_flags, reg_table, work_line, saved_line, failures,
                    encountered_failure_types, have_pending_hard_failure,
                    have_pending_runtime_throw_failure, verify_result, obs>>
  \/ LET u == UpdateRegistersSeq(method, CurUpdate, TargetsWithinCode(method, try_item),
                                 1, TRUE)
     IN /\ obs' = [obs EXCEPT !.handler_merged = TRUE, !.handler_line = saved_line,
                              !.edges = @ \o [i \in 1..Len(try_item.handlers) |->
                                                <<"handler", HandlerTargets(try_item)[i]>>],
                              !.merged = @ \cup {<<work_insn_idx, HandlerTargets(try_item)[i],
                                                   saved_line>> :
                                                   i \in 1..Len(try_item.handlers)},
                              !.stray_changed =
                                 @ \cup TargetsOutsideCode(method, try_item)]
        /\ IF ~u.ok
             THEN SetUpdated(u) /\ Return(FALSE)
           ELSE IF MonitorNeedsCatchAll(op, u.wl, HasCatchAllHandler(try_item))
             THEN FailsAfter(u)
           ELSE /\ SetUpdated(u)
                /\ phase' = "fallthrough"
                /\ UNCHANGED verify_result

\* The handler loop for the try item of the work instruction.
ThrowTo(op, try_item) ==
  IF TargetsOutsideCode(method, try_item) # {}
    THEN ThrowOutsideCode(op, try_item)
  ELSE HandlersUpdated(op, try_item,
                       UpdateRegistersSeq(method, CurUpdate, HandlerTargets(try_item), 1,
                                          TRUE))

\* Handle instructions that can throw in a "try" block: every handler of
\* the try item gets saved_line_.
PropagateException ==
  /\ phase = "exception"
  /\ IF ~("kThrow" \in opcode_flags /\ insn_flags[work_insn_idx].in_try)
       THEN SkipTo("fallthrough")
     ELSE ThrowTo(InstructionAt(method, work_insn_idx).op,
                  FindTryItem(method, work_insn_idx))
  /\ UNCHANGED <<cache, peephole_vars, interesting_dex_pc, monitor_enter_dex_pcs,
                 method, env, work_insn_idx, start_guess, opcode_flags,
                 exc_handler_unreachable>>

\* Handle "continue", after UpdateRegisters(next_insn_idx) left u.
ContinueUpdated(next_insn_idx, line, u) ==
  /\ SetUpdated(u)
  /\ obs' = [obs EXCEPT !.propagated = @ \cup {next_insn_idx}, !.fallthrough_merged = line,
                        !.edges = Append(@, <<"continue", next_insn_idx>>),
                        !.merged = @ \cup {<<work_insn_idx, next_insn_idx, line>>}]
  /\ IF u.ok THEN phase' = "finish" /\ UNCHANGED verify_result
     ELSE Return(FALSE)

\* Handle "continue", after the work line was adjusted for a return and
\* left adj: a next instruction without a table line is just marked changed.
ContinueAdjusted(next_insn_idx, adj) ==
  IF reg_table[next_insn_idx] # NoLine
    THEN ContinueUpdated(next_insn_idx, adj.line,
                         UpdateRegisters(method, insn_flags, reg_table, adj.fs, adj.line,
                                         next_insn_idx, FALSE, TRUE))
  ELSE /\ insn_flags' = [insn_flags EXCEPT ![next_insn_idx].changed = TRUE]
       /\ work_line' = adj.line
       /\ SetFailState(adj.fs)
       /\ obs' = [obs EXCEPT !.propagated = @ \cup {next_insn_idx},
                             !.fallthrough_merged = adj.line,
                             !.edges = Append(@, <<"continue", next_insn_idx>>),
                             !.merged = @ \cup {<<work_insn_idx, next_insn_idx, adj.line>>}]
       /\ phase' = "finish"
       /\ UNCHANGED <<reg_table, verify_result>>

\* The work line made consistent with the fallthrough line of the
\* peephole optimization.
FallthroughWorkLine ==
  IF fallthrough_line # NoLine THEN CopyFromLine(work_line, fallthrough_line) ELSE work_line

\* Handle "continue" for the instruction at next_insn_idx.
ContinueTo(next_insn_idx) ==
  IF next_insn_idx >= InsnsSize(method) THEN PropagationFails
  ELSE IF ~CheckNotMoveException(method, next_insn_idx) THEN PropagationFails
  ELSE ContinueAdjusted(next_insn_idx,
         IF insn_flags[next_insn_idx].is_return
           THEN AdjustReturnLine(method, InstructionAt(method, next_insn_idx),
                                 FallthroughWorkLine, CurFailState)
         ELSE LF(FallthroughWorkLine, CurFailState))

\* Handle "continue": the next instruction gets the work line, adjusted
\* when it is a return.
PropagateFallthrough ==
  /\ phase = "fallthrough"
  /\ IF ~("kContinue" \in opcode_flags /\ ~exc_handler_unreachable)
       THEN SkipTo("finish")
     ELSE ContinueTo(work_insn_idx
                       + SizeInCodeUnits(InstructionAt(method, work_insn_idx)))
  /\ UNCHANGED <<cache, peephole_vars, interesting_dex_pc, monitor_enter_dex_pcs,
                 method, env, work_insn_idx, start_guess, opcode_flags,
                 exc_handler_unreachable>>

\* The end of CodeFlowVerifyInstruction without the reset: the pending
\* runtime throw is recorded as a failure and stays pending.
RecordRuntimeThrow_NoReset(fs, wl) ==
  IF fs.rt THEN Fail(fs, "RUNTIME_THROW", FALSE, wl) ELSE fs

\* The end of CodeFlowVerifyInstruction: a pending runtime throw is
\* recorded as a failure and reset.
RecordRuntimeThrow(fs, wl) ==
  IF fs.rt THEN [Fail(fs, "RUNTIME_THROW", FALSE, wl) EXCEPT !.rt = FALSE]
  ELSE fs

\* The end of CodeFlowVerifyInstruction and of the loop body: a return
\* needs an empty monitor stack, start_guess moves on, a pending runtime
\* throw is recorded and reset, and the instruction is visited, not changed.
FinishInsn ==
  /\ phase = "finish"
  /\ SetFailState(RecordRuntimeThrow(
                    IF "kReturn" \in opcode_flags
                      THEN VerifyMonitorStackEmpty(work_line, CurFailState, work_line)
                    ELSE CurFailState,
                    work_line))
  /\ start_guess' = NextStartGuess(method, work_insn_idx, opcode_flags, start_guess)
  /\ insn_flags' = [insn_flags EXCEPT ![work_insn_idx].visited = TRUE,
                                      ![work_insn_idx].changed = FALSE]
  /\ phase' = "select"
  /\ UNCHANGED <<cache, peephole_vars, interesting_dex_pc, monitor_enter_dex_pcs,
                 method, env, reg_table, work_line, work_insn_idx, opcode_flags,
                 exc_handler_unreachable, verify_result, obs>>

Next ==
  \/ DoComputeWidthsAndCountOps
  \/ DoScanTryCatchBlocks
  \/ DoVerifyInstructions
  \/ DoVerifyCodeFlow
  \/ RescanFromTop
  \/ AllFlagsClear
  \/ SelectInsn
  \/ Dispatch
  \/ PropagateBranch
  \/ PropagateSwitch
  \/ PropagateException
  \/ PropagateFallthrough
  \/ FinishInsn

Spec == Init /\ [][Next]_vars

(* ------------------------------------------------------------------ *)
(* Requests to the RegTypeCache                                        *)
(* ------------------------------------------------------------------ *)

verifier_vars ==
  <<method, env, phase, insn_flags, reg_table, work_line, saved_line, work_insn_idx,
    start_guess, opcode_flags, exc_handler_unreachable, failures,
    encountered_failure_types, have_pending_hard_failure,
    have_pending_runtime_throw_failure, verify_result, obs,
    interesting_dex_pc, monitor_enter_dex_pcs, branch_line, fallthrough_line>>

\* The ids of the entries past the primitives and small constants.
EntryIds(c) == (kNumPrimitivesAndSmallConstants + 1)..Len(c.entries)

\* What a request asks for: the kind and the payload of the entry.
Asked(kind, payload, pc) == [kind |-> kind, payload |-> payload, allocation_pc |-> pc]

\* The kind and payload an entry stands for: a type with a class is named
\* by the class, one without by its descriptor.
Denotes(e) ==
  [kind |-> e.kind,
   payload |-> IF e.klass # NoClass THEN e.klass ELSE e.descriptor,
   allocation_pc |-> e.allocation_pc,
   resolved_part |-> e.resolved_part,
   unresolved_types |-> e.unresolved_types]

AskedByDescriptor(descriptor) ==
  IF descriptor \in PrimitiveDescriptors
  THEN IF descriptor = "I" THEN Asked("Integer", "int", kDexNoIndex)
       ELSE Asked("Conflict", "", kDexNoIndex)
  ELSE IF ResolveClass(descriptor) # NoClass
       THEN Asked("Reference", ResolveClass(descriptor), kDexNoIndex)
       ELSE IF IsValidDescriptor(descriptor)
            THEN Asked("UnresolvedReference", descriptor, kDexNoIndex)
            ELSE Asked("Conflict", "", kDexNoIndex)

AskedByClass(klass) ==
  IF IsPrimitive(klass) THEN Asked("Integer", "int", kDexNoIndex)
  ELSE Asked("Reference", klass, kDexNoIndex)

AskedFromUninitialized(u) ==
  IF IsUnresolvedTypes(u) THEN Asked("UnresolvedReference", u.descriptor, kDexNoIndex)
  ELSE Asked("Reference", u.klass, kDexNoIndex)

\* The request is answered: the cache keeps the id it returned.
Answer(r) ==
  /\ Len(r.cache.entries) <= kNumPrimitivesAndSmallConstants + MaxEntries
  /\ cache' = [r.cache EXCEPT !.returned = r.id]
  /\ UNCHANGED verifier_vars

\* The declaring class of the method under verification.
IsDeclaringClassEntry(e) == e.kind = "Reference" /\ InDexFile(e.klass)

\* A type a lookup by descriptor or by class made, which new-instance can
\* allocate: MakeUnresolvedReference has no caller in the verifier.
IsInstantiableEntry(e) ==
  /\ e.kind \in {"Reference", "UnresolvedReference"}
  /\ e.descriptor \in ReferenceDescriptors \ ArrayDescriptors

\* A type RegType::Merge hands to FromUnresolvedMerge.
IsMergeableEntry(e) ==
  /\ e.kind \in {"Reference", "UnresolvedReference", "UnresolvedMergedReference"}
  /\ ~IsJavaLangObject(e)

DoFromDescriptor ==
  \E descriptor \in Descriptors :
    Answer(FromDescriptor(cache, descriptor))

DoFromTypeIndex ==
  \E type_index \in TypeIds : Answer(FromTypeIndex(cache, type_index))

DoFromClass ==
  \E klass \in Classes : Answer(FromClass(cache, klass))

DoUninitialized ==
  \E type \in EntryIds(cache), allocation_pc \in AllocationPcs :
    /\ IsInstantiableEntry(cache.entries[type])
    /\ Answer(UninitializedAt(cache, type, allocation_pc))

DoUninitializedThisArgument ==
  \E type \in EntryIds(cache) :
    /\ IsDeclaringClassEntry(cache.entries[type])
    /\ Answer(UninitializedThisArgument(cache, type))

DoFromUninitialized ==
  \E uninit_type \in EntryIds(cache) :
    /\ cache.entries[uninit_type].kind \in UninitializedKinds
    /\ Answer(FromUninitialized(cache, uninit_type))

DoFromUnresolvedMerge ==
  \E left \in EntryIds(cache), right \in EntryIds(cache) :
    /\ left # right
    /\ IsMergeableEntry(cache.entries[left])
    /\ IsMergeableEntry(cache.entries[right])
    /\ IsUnresolvedTypes(cache.entries[left]) \/ IsUnresolvedTypes(cache.entries[right])
    /\ Answer(FromUnresolvedMerge(cache, left, right))

DoMakeUnresolvedReference ==
  Answer(MakeUnresolvedReference(cache))

CacheInit ==
  /\ method = MonBalanced
  /\ env = CHOOSE e \in Envs : TRUE
  /\ Init

CacheNext ==
  \/ DoFromDescriptor
  \/ DoFromTypeIndex
  \/ DoFromClass
  \/ DoUninitialized
  \/ DoUninitializedThisArgument
  \/ DoFromUninitialized
  \/ DoFromUnresolvedMerge
  \/ DoMakeUnresolvedReference

CacheSpec == CacheInit /\ [][CacheNext]_vars

(* ------------------------------------------------------------------ *)
(* FindLocksAtDexPc                                                    *)
(* ------------------------------------------------------------------ *)

\* The static FindLocksAtDexPc made a verifier for the method and set the
\* dex pc of interest and the list to fill.
LocksInit ==
  /\ Constructed
  /\ phase = "find-locks"
  /\ interesting_dex_pc \in OpcodePcs(method)
  /\ monitor_enter_dex_pcs = [is_null |-> FALSE, list |-> <<>>]

\* impl::MethodVerifier::FindLocksAtDexPc: the full verification is run when
\* the method has a monitor-enter, nothing otherwise.
DoFindLocksAtDexPc ==
  /\ phase = "find-locks"
  /\ phase' = IF \E pc \in OpcodePcs(method) : InstructionAt(method, pc).op = "monitor-enter"
              THEN "start" ELSE "done"
  /\ UNCHANGED <<cache, peephole_vars, interesting_dex_pc, monitor_enter_dex_pcs,
                 method, env, insn_flags, reg_table, work_line, saved_line,
                 work_insn_idx, start_guess, opcode_flags,
                 exc_handler_unreachable, failures, encountered_failure_types,
                 have_pending_hard_failure, have_pending_runtime_throw_failure,
                 verify_result, obs>>

LocksNext ==
  \/ DoFindLocksAtDexPc
  \/ Next

LocksSpec == LocksInit /\ [][LocksNext]_vars

(* ------------------------------------------------------------------ *)
(* VerifyMethod                                                        *)
(* ------------------------------------------------------------------ *)

\* The failure kinds the runtime can handle without verifying the method
\* again.
unresolved_mask ==
  {"UNRESOLVED_TYPE_CHECK", "NO_CLASS", "CLASS_CHANGE", "INSTANTIATION", "ACCESS_CLASS",
   "ACCESS_FIELD", "NO_METHOD", "NO_FIELD", "ACCESS_METHOD", "RUNTIME_THROW"}

\* CanRuntimeHandleVerificationFailure saying yes to every set of kinds.
CanRuntimeHandleVerificationFailure_Always(encountered) == TRUE

\* CanRuntimeHandleVerificationFailure(encountered_failure_types)
CanRuntimeHandleVerificationFailure(encountered) == encountered \ unresolved_mask = {}

\* MethodVerifier::VerifyMethod once Verify() has returned verified: the
\* FailureData made from the verifier's failures_ and
\* encountered_failure_types_.
VerifyMethod(verified, fl, encountered) ==
  [kind |-> IF verified
              THEN IF Len(fl) # 0
                     THEN IF CanRuntimeHandleVerificationFailure(encountered)
                            THEN IF "UNRESOLVED_TYPE_CHECK" \in encountered
                                   THEN "kTypeChecksFailure"
                                 ELSE "kAccessChecksFailure"
                          ELSE "kSoftFailure"
                   ELSE "kNoFailure"
            ELSE "kHardFailure",
   types |-> encountered]

\* Verify() has returned.
Verified == phase = "done" /\ verify_result # "none"

\* What VerifyMethod returns for the verifier as it is.
result == VerifyMethod(verify_result = "true", failures, encountered_failure_types)

(* ------------------------------------------------------------------ *)
(* Properties                                                          *)
(* ------------------------------------------------------------------ *)

\* The longest strictly ascending chain of RegType::Merge above t.
RECURSIVE HeightAbove(_)
HeightAbove(t) ==
  LET above == {u \in RegTypes : u # t /\ Merge(t, u) = u}
  IN IF above = {} THEN 0
     ELSE 1 + (CHOOSE h \in {HeightAbove(u) : u \in above} :
                 \A g \in {HeightAbove(u) : u \in above} : h >= g)

\* The height of the register type lattice of the model.
LatticeHeight ==
  CHOOSE h \in {HeightAbove(t) : t \in RegTypes} :
    \A g \in {HeightAbove(t) : t \in RegTypes} : h >= g

\* The successors the opcode of the instruction at pc names: its branch
\* target, its switch targets and the next instruction.
StaticSuccessors(m, pc) ==
  LET inst == InstructionAt(m, pc)
  IN (IF "kBranch" \in FlagsOf(inst.op) THEN {pc + inst.off} ELSE {})
       \cup (IF "kSwitch" \in FlagsOf(inst.op)
               THEN {pc + inst.targets[i] : i \in 1..Len(inst.targets)}
             ELSE {})
       \cup (IF "kContinue" \in FlagsOf(inst.op) THEN {pc + SizeInCodeUnits(inst)}
             ELSE {})

\* C1: the line merged into the exception handlers of an instruction is the
\* work line as it was before the transfer function of the instruction ran,
\* also when the instruction throws only because it marked a runtime throw:
\* its registers, monitors, lock depths and this_initialized are those of
\* that line (the result slot is no part of what a line copies).
C1_HandlersGetPreInstructionLine ==
  obs.handler_merged => obs.handler_line = CopyFromLine(obs.handler_line, obs.pre_line)

\* A monitor-exit that marked a runtime throw and changed the work line had
\* its handlers merged.
C1_Witness ==
  /\ obs.handler_merged
  /\ obs.rt_marked
  /\ "kThrow" \notin FlagsAfterSwitch(InstructionAt(method, work_insn_idx).op)
  /\ work_line # obs.pre_line

\* C2: no transfer function runs once a hard failure is recorded.
C2_NoTransferAfterHardFailure == ~obs.after_hard

\* C3: Verify() returns false exactly when the hard failure flag is set; a
\* false result comes with a recorded failure, and a true result with no
\* hard failure recorded at any point.
C3_ResultIsHardFailureFlag ==
  /\ phase = "done" =>
       /\ (verify_result = "false") <=> have_pending_hard_failure
       /\ verify_result = "false" => failures # <<>>
       /\ verify_result = "true" =>
            /\ "BAD_CLASS_HARD" \notin encountered_failure_types
            /\ \A i \in 1..Len(failures) : failures[i] # "BAD_CLASS_HARD"
  /\ phase # "done" => verify_result = "none"

\* Verify() returned false after code flow processed an instruction.
C3_Witness ==
  /\ phase = "done"
  /\ verify_result = "false"
  /\ obs.steps > 1

\* C4: the number of instructions the loop processes is bounded by the
\* number of instructions times the height of the lattice per register.
C4_StepsBounded ==
  obs.steps <= Len(method.insns) * (method.registers_size * LatticeHeight + 2)

\* The loop ended after it processed an instruction more than once.
C4_Witness ==
  /\ phase = "done"
  /\ obs.steps > Len(method.insns)

\* C5: when the loop ends with success no instruction has its changed flag
\* set, below start_guess included.
C5_NoChangedFlagOnSuccess ==
  phase = "done" /\ verify_result = "true" =>
    \A pc \in Pcs(method) : ~insn_flags[pc].changed

\* The loop ended with success after a rescan from the top.
C5_Witness ==
  /\ phase = "done"
  /\ verify_result = "true"
  /\ obs.rescanned

C10_Original ==
  phase = "dispatch" => \A pc \in Pcs(method) : pc < work_insn_idx => ~insn_flags[pc].changed

\* C10, amended: the instruction processed is the changed instruction of
\* lowest offset at or above start_guess; changed instructions below
\* start_guess wait until none is left at or above it.
C10_LowestChangedFromStartGuess ==
  phase = "dispatch" =>
    /\ insn_flags[work_insn_idx].changed
    /\ work_insn_idx >= start_guess
    /\ \A pc \in Pcs(method) :
         start_guess <= pc /\ pc < work_insn_idx => ~insn_flags[pc].changed

\* An instruction is processed while an instruction below start_guess has
\* its changed flag set.
C10_Witness ==
  /\ phase = "dispatch"
  /\ \E pc \in Pcs(method) : pc < start_guess /\ insn_flags[pc].changed

\* C11, as claimed: every failure the static pre-pass records is a hard
\* failure that rejects the method; it records no soft failure.
C11_Original ==
  /\ phase = "code_flow" => failures = <<>>
  /\ obs.prepass = "failed" =>
       /\ verify_result = "false"
       /\ \A i \in 1..Len(failures) : failures[i] = "BAD_CLASS_HARD"

\* C11, amended: every failure that makes a stage of the pre-pass fail is a
\* hard failure that rejects the method; the one failure the pre-pass
\* records without failing is the soft VERIFY_ERROR_INSTANTIATION of a
\* new-instance of java.lang.Class, which sets no hard failure flag.
C11_PrePassFailsHard ==
  /\ phase = "code_flow" =>
       /\ ~have_pending_hard_failure
       /\ \A i \in 1..Len(failures) : failures[i] = "INSTANTIATION"
       /\ failures # <<>> =>
            \E pc \in OpcodePcs(method) :
              InstructionAt(method, pc) = NewInstance(InstructionAt(method, pc).vA, "Class")
  /\ obs.prepass = "failed" =>
       /\ phase = "done"
       /\ verify_result = "false"
       /\ have_pending_hard_failure
       /\ failures # <<>>
       /\ failures[Len(failures)] = "BAD_CLASS_HARD"
       /\ \A i \in 1..(Len(failures) - 1) : failures[i] = "INSTANTIATION"

\* The pre-pass failed in the static checks after it had recorded a soft
\* failure.
C11_Witness ==
  /\ obs.prepass = "failed"
  /\ Len(failures) = 2

\* C12: when a stage of the pre-pass fails, code flow never starts: no work
\* line and no saved line is created, the register table holds no line, no
\* instruction is marked changed or visited, and none is processed.
C12_NoCodeFlowAfterPrePassFailure ==
  obs.prepass = "failed" =>
    /\ saved_line = NoLine
    /\ work_line = NoLine
    /\ \A pc \in Pcs(method) :
         /\ reg_table[pc] = NoLine
         /\ ~insn_flags[pc].changed
         /\ ~insn_flags[pc].visited
    /\ work_insn_idx = kDexNoIndex
    /\ obs.steps = 0

\* The pre-pass failed in its last stage, the static checks.
C12_Witness ==
  /\ obs.prepass = "failed"
  /\ \E pc \in Pcs(method) : insn_flags[pc].branch_target

\* The work instruction has opcode op and its transfer function has run.
Processed(op) ==
  /\ obs.steps > 0
  /\ phase # "dispatch"
  /\ InstructionAt(method, work_insn_idx).op = op

\* The type a register of the work instruction held when the instruction
\* was entered.
TypeBefore(reg) == obs.pre_line.regs[reg]

IsAsked(e, asked) ==
  /\ e.kind = asked.kind
  /\ Denotes(e).payload = asked.payload
  /\ e.allocation_pc = asked.allocation_pc

\* The answer r to a request made of the cache is an entry of the kind and
\* payload asked for, and it is the entry the cache already had, if any.
ReturnsExisting(r, asked) ==
  /\ IsAsked(r.cache.entries[r.id], asked)
  /\ \A i \in DOMAIN cache.entries :
       IsAsked(cache.entries[i], asked) =>
         r.id = i /\ r.cache.entries = cache.entries

MergePairs(c) ==
  {p \in EntryIds(c) \X EntryIds(c) :
     /\ p[1] # p[2]
     /\ IsMergeableEntry(c.entries[p[1]])
     /\ IsMergeableEntry(c.entries[p[2]])
     /\ IsUnresolvedTypes(c.entries[p[1]]) \/ IsUnresolvedTypes(c.entries[p[2]])}

\* RegType::Merge gives the same type whichever operand is the incoming one.
MergeIsCommutative == \A a \in RegTypes, b \in RegTypes : Merge(a, b) = Merge(b, a)

IsMoveResult(inst) == inst.op \in {"move-result", "move-result-object"}

\* The phases between the processing of an instruction and the selection of
\* the next one.
AfterDispatch == phase \in {"branch", "switch", "exception", "fallthrough", "finish"}

MonitorExitProcessed ==
  /\ obs.steps > 0
  /\ phase \in {"branch", "switch", "exception", "fallthrough", "finish", "select", "done"}
  /\ InstructionAt(method, work_insn_idx).op = "monitor-exit"

PeepholeApplied ==
  /\ obs.steps > 0
  /\ phase = "finish"
  /\ InstructionAt(method, work_insn_idx).op \in {"if-eqz", "if-nez"}
  /\ PeepholeApplies(method, insn_flags, work_insn_idx, obs.pre_line)

\* Whether the type t of a table line did not lose the type orig to a
\* narrower one: orig merged into t changes nothing.
KeepsType(t, orig) == Merge(t, orig) = t

\* C20: when the peephole of instance-of and if-eqz/if-nez applies, the
\* line merged into the successor on which the test succeeded (the next
\* instruction for if-eqz, the branch target for if-nez) has the class of
\* the instance-of in the tested object register; the line merged into the
\* other successor has the type the register had before, as has the work
\* line of an if-nez; no other register differs between the two lines but
\* the source of a move-object before the instance-of; and nothing is
\* merged into a handler.
C20_PeepholeNarrowsOneSuccessor ==
  PeepholeApplied =>
    LET inst == InstructionAt(method, work_insn_idx)
        instance_of_inst == PrevInstruction(method, work_insn_idx)
        vB == instance_of_inst.vB
        orig_type == obs.pre_line.regs[vB]
        cast_type == instance_of_inst.aux
        target == work_insn_idx + inst.off
        next == work_insn_idx + SizeInCodeUnits(inst)
        succeeded == IF inst.op = "if-eqz" THEN obs.fallthrough_merged ELSE obs.branch_merged
        other == IF inst.op = "if-eqz" THEN obs.branch_merged ELSE obs.fallthrough_merged
        other_pc == IF inst.op = "if-eqz" THEN target ELSE next
    IN /\ succeeded # NoLine /\ other # NoLine
       /\ cast_type # orig_type
       /\ ~insn_flags[next].is_return => succeeded.regs[vB] = cast_type
       /\ ~insn_flags[other_pc].is_return => other.regs[vB] = orig_type
       /\ inst.op = "if-nez" => work_line.regs[vB] = orig_type
       /\ ~insn_flags[other_pc].is_return =>
            \A r \in Registers(method) :
              other.regs[r] = obs.pre_line.regs[r]
       /\ ~insn_flags[next].is_return =>
            \A r \in Registers(method)
                       \ ({vB} \cup MoveSources(method, insn_flags, work_insn_idx)) :
              succeeded.regs[r] = obs.pre_line.regs[r]
       /\ reg_table[other_pc] # NoLine /\ ~insn_flags[other_pc].is_return =>
            KeepsType(reg_table[other_pc].regs[vB], orig_type)
       /\ ~obs.handler_merged

\* An if-nez after an instance-of of a copy of the register was processed:
\* the branch target got the class This in the tested register and in the
\* source of the copy, the next instruction the class Object in both.
C20_Witness ==
  /\ PeepholeApplied
  /\ InstructionAt(method, work_insn_idx) = IfNez(0, 3)
  /\ MoveSources(method, insn_flags, work_insn_idx) = {2}
  /\ obs.branch_merged.regs[1] = "This" /\ obs.branch_merged.regs[2] = "This"
  /\ obs.fallthrough_merged.regs[1] = "Object" /\ obs.fallthrough_merged.regs[2] = "Object"
  /\ work_line.regs[1] = "Object"

\* The successor edges the instruction at pc has under the opcode flags
\* flags, in the order of the claim: the branch target, the switch targets
\* in table order, the handlers of the try item in handler order, the next
\* instruction.
EdgesInOrder(m, iflags, pc, flags, unreachable) ==
  LET inst == InstructionAt(m, pc)
      handlers == FindTryItem(m, pc).handlers
  IN (IF "kBranch" \in flags THEN <<(<<"branch", pc + inst.off>>)>> ELSE <<>>)
     \o (IF "kSwitch" \in flags
           THEN [i \in 1..Len(inst.targets) |-> <<"switch", pc + inst.targets[i]>>]
         ELSE <<>>)
     \o (IF "kThrow" \in flags /\ iflags[pc].in_try
           THEN [i \in 1..Len(handlers) |-> <<"handler", handlers[i].addr>>]
         ELSE <<>>)
     \o (IF "kContinue" \in flags /\ ~unreachable
           THEN <<(<<"continue", pc + SizeInCodeUnits(inst)>>)>>
         ELSE <<>>)

\* The propagation steps follow one another in the order branch, switch,
\* exception, continue, unless the verifier returns or stops, and only the
\* last one writes the work line.
PropagationStep ==
  /\ phase = "branch" => phase' \in {"switch", "done"}
  /\ phase = "switch" => phase' \in {"exception", "done"}
  /\ phase = "exception" => phase' \in {"fallthrough", "done", "crashed"}
  /\ phase = "fallthrough" => phase' \in {"finish", "done"}
  /\ phase \in {"branch", "switch", "exception"} => work_line' = work_line

\* The edges an instruction whose propagation is done was propagated along.
PropagatedInOrder ==
  phase = "finish" =>
    obs.edges = EdgesInOrder(method, insn_flags, work_insn_idx, opcode_flags,
                             exc_handler_unreachable)

\* C21: for every processed instruction the successors are propagated to in
\* the order branch target, switch targets in table order, handlers of the
\* covering try item in handler order, next instruction; the branch, switch
\* and handler steps leave the work line as it is, the step of the next
\* instruction is the last.
C21_PropagationOrder == [][PropagationStep /\ PropagatedInOrder']_vars

\* A switch in a try block whose table and whose handler list are not in
\* the order of the addresses was propagated; so was a throwing instruction
\* with two handlers and a next instruction.
C21_Witness ==
  /\ phase = "finish"
  /\ Len(obs.edges) >= 3
  /\ \E i \in 1..(Len(obs.edges) - 1) :
       obs.edges[i][1] = obs.edges[i + 1][1] /\ obs.edges[i][2] > obs.edges[i + 1][2]
  /\ obs.edges[Len(obs.edges)][1] = "continue"

\* The return instructions of the model.
IsReturn(inst) == inst.op \in {"return-void", "return", "return-object"}

\* Every register of line but the one inst returns holds Conflict.
DeadRegistersAreConflicts(inst, line) ==
  \A r \in Registers(method) :
    (inst.op = "return-void" \/ r # inst.vA) => line.regs[r] = "Conflict"

LineContains(m, new, old) ==
  /\ \A r \in Registers(m) : Merge(new.regs[r], old.regs[r]) = new.regs[r]
  /\ new.this_initialized => old.this_initialized

\* One step of successor propagation, for the saved line of pc: a target
\* that was visited or changed is merged into and is marked changed exactly
\* if its line was altered; a line that lost state belongs to a target that
\* was neither visited nor changed, and that target is marked changed
\* unless the return line it was given failed hard.
SavedLineStep(pc) ==
  LET old == reg_table[pc]
      new == reg_table'[pc]
  IN /\ IsVisitedOrChanged(insn_flags[pc]) =>
          /\ LineContains(method, new, old)
          /\ insn_flags'[pc].changed = (insn_flags[pc].changed \/ new # old)
     /\ ~IsVisitedOrChanged(insn_flags[pc]) /\ new # old =>
          insn_flags'[pc].changed \/ have_pending_hard_failure'

\* SavedLineStep for every saved line, in a step of successor propagation.
SavedLinesStep ==
  phase \in {"branch", "switch", "exception", "fallthrough"} =>
    \A pc \in Pcs(method) : reg_table[pc] # NoLine => SavedLineStep(pc)

\* C23: a merge into a target that was visited or marked changed marks the
\* target changed if and only if it altered the target's saved line, and a
\* saved line is overwritten only for a target that was never visited or
\* marked changed, so that nothing merged into a saved line is discarded.
C23_MergeMarksChangedIffAltered == [][SavedLinesStep]_vars

\* A target that had been visited was marked changed again by a merge that
\* altered one of the registers of its saved line.
C23_Witness ==
  /\ phase \in {"switch", "exception", "fallthrough", "finish"}
  /\ \E pc \in Pcs(method) :
       /\ reg_table[pc] # NoLine
       /\ insn_flags[pc].visited
       /\ insn_flags[pc].changed
       /\ pc # work_insn_idx
       /\ \E e \in 1..Len(obs.edges) : obs.edges[e][2] = pc

\* The addresses of the catch handlers of a method.
HandlerAddrs(m) ==
  {AllHandlers(m, Len(m.tries))[i].addr : i \in 1..Len(AllHandlers(m, Len(m.tries)))}

\* The register table has been initialized and code flow is under way.
InCodeFlow ==
  phase \in {"select", "dispatch", "branch", "switch", "exception", "fallthrough", "finish"}

\* C24: while code flow runs, every branch target, every switch target and
\* every handler entry is flagged as a branch target and has a line in
\* the pc-to-register-line table, and so has every target that a branch,
\* switch or handler edge was propagated to.
C24_TargetsHaveSavedLine ==
  /\ InCodeFlow =>
       \A t \in HandlerAddrs(method) \cup
                UNION {BranchTargets(method, pc) : pc \in OpcodePcs(method)} :
         /\ t \in Pcs(method)
         /\ insn_flags[t].branch_target
         /\ reg_table[t] # NoLine
  /\ \A e \in 1..Len(obs.edges) :
       obs.edges[e][1] # "continue" => reg_table[obs.edges[e][2]] # NoLine

\* The relative offsets that the instruction at pc names as targets.
TargetOffsets(m, pc) ==
  LET inst == InstructionAt(m, pc)
  IN IF inst.op \in {"goto", "goto/32", "if-eqz", "if-nez"} THEN {inst.off}
     ELSE {inst.targets[i] : i \in 1..Len(inst.targets)}

\* pc + off is within the code and is where an instruction of m begins.
TargetIsInstruction(m, pc, off) ==
  /\ off >= -pc
  /\ off <= InsnsSize(m) - 1 - pc
  /\ pc + off \in OpcodePcs(m)

\* The static pre-pass succeeded.
PrePassSucceeded == phase = "code_flow" \/ InCodeFlow

\* C25: after the static pre-pass succeeds every branch target and every
\* switch target is within the code, begins an instruction and has IsOpcode
\* set; the verification of a method with a branch or switch whose target is
\* before or past the code, does not fit an int32_t or is inside an
\* instruction ends with a hard failure.
C25_TargetsAreInstructions ==
  /\ PrePassSucceeded =>
       \A pc \in OpcodePcs(method) : \A off \in TargetOffsets(method, pc) :
         /\ TargetIsInstruction(method, pc, off)
         /\ insn_flags[pc + off].opcode
  /\ phase = "done" =>
       \/ \A pc \in OpcodePcs(method) : \A off \in TargetOffsets(method, pc) :
            TargetIsInstruction(method, pc, off)
       \/ have_pending_hard_failure /\ verify_result = "false"

\* The pre-pass succeeded for a method with a backward branch and for a
\* method with a switch of two targets, one of them backward.
C25_Witness ==
  /\ PrePassSucceeded
  /\ \E pc \in OpcodePcs(method) :
       \/ InstructionAt(method, pc).op = "goto/32" /\ InstructionAt(method, pc).off < 0
       \/ /\ Len(InstructionAt(method, pc).targets) = 2
          /\ \E off \in TargetOffsets(method, pc) : off < 0

\* The verification of a method with a branch whose target wraps around the
\* range of an int32_t ended.
C25_WitnessRejected ==
  /\ phase = "done"
  /\ \E pc \in OpcodePcs(method) : kInt32Max \in TargetOffsets(method, pc)

\* ScanTryCatchBlocks succeeded.
TaggingSucceeded == phase \in {"verify_insns", "code_flow"} \/ InCodeFlow

\* The handler starts an instruction of the code that is no move-result and
\* is flagged as a branch target.
HandlerEntryTagged(h) ==
  /\ h.addr \in Pcs(method)
  /\ insn_flags[h.addr].opcode
  /\ insn_flags[h.addr].branch_target
  /\ CheckNotMoveResult(method, h.addr)

\* Every instruction that starts within the try item is flagged InTry.
TryRangeTagged(t) ==
  \A pc \in OpcodePcs(method) : t.start <= pc /\ pc < t.start + t.count => insn_flags[pc].in_try

\* A try item that is empty, reaches past the code or starts inside an
\* instruction.
MalformedTry(m, t) ==
  \/ t.count <= 0
  \/ t.start + t.count > InsnsSize(m)
  \/ t.start \notin OpcodePcs(m)

\* C26: after try/catch tagging succeeds every catch handler's entry is
\* within the code, starts an instruction, is flagged as a branch target and
\* is no move-result, and every instruction start within a try range is
\* flagged InTry; a malformed try range ends in a hard failure.
C26_TryCatchTagged ==
  /\ TaggingSucceeded =>
       /\ \A i \in 1..Len(AllHandlers(method, Len(method.tries))) :
            HandlerEntryTagged(AllHandlers(method, Len(method.tries))[i])
       /\ \A k \in 1..Len(method.tries) : TryRangeTagged(method.tries[k])
  /\ phase = "done" /\ (\E k \in 1..Len(method.tries) : MalformedTry(method, method.tries[k])) =>
       have_pending_hard_failure /\ verify_result = "false"

\* C26 for the handlers whose address is within the code, and the try
\* ranges.
TryCatchTaggedWithinCode ==
  /\ TaggingSucceeded =>
       /\ \A i \in 1..Len(AllHandlers(method, Len(method.tries))) :
            AllHandlers(method, Len(method.tries))[i].addr \in Pcs(method) =>
              HandlerEntryTagged(AllHandlers(method, Len(method.tries))[i])
       /\ \A k \in 1..Len(method.tries) : TryRangeTagged(method.tries[k])
  /\ phase = "done" /\ (\E k \in 1..Len(method.tries) : MalformedTry(method, method.tries[k])) =>
       have_pending_hard_failure /\ verify_result = "false"

\* C27: after the static pre-pass succeeds every vararg instruction that is
\* no range instruction has a count of at most 5 and has each of the
\* registers it lists within the register file, whatever the size of the
\* register file, and the window [vC, vC + vA) of every range instruction
\* is within the register file.
C27_VarArgRegistersInFile ==
  PrePassSucceeded =>
    \A pc \in OpcodePcs(method) :
      LET inst == InstructionAt(method, pc)
      IN /\ inst.op \in VarArgOps =>
              /\ VarArgCount(inst) <= 5
              /\ \A idx \in 1..VarArgCount(inst) :
                   GetVarArgs(inst)[idx] \in Registers(method)
         /\ inst.op = "invoke-static/range" =>
              \A r \in inst.vC..(inst.vC + inst.vA - 1) : r \in Registers(method)

\* The pre-pass succeeded for a method of 16 registers or more, for which
\* the registers are not compared with the size, with a vararg instruction
\* that lists five registers, one of them register 15.
C27_Witness ==
  /\ PrePassSucceeded
  /\ method.registers_size >= 16
  /\ \E pc \in OpcodePcs(method) :
       /\ InstructionAt(method, pc).op = "filled-new-array"
       /\ InstructionAt(method, pc).vA = 5
       /\ InstructionAt(method, pc).args[5] = 15

\* The verification of a method with a vararg instruction that lists a
\* register outside the register file, or more than five, ended with a hard
\* failure; so did that of a method with a range window past the file.
VarArgRejected ==
  phase = "done" =>
    \A pc \in OpcodePcs(method) :
      LET inst == InstructionAt(method, pc)
      IN /\ inst.op = "filled-new-array"
              /\ (\/ inst.vA > 5
                  \/ \E idx \in 1..inst.vA : inst.args[idx] >= method.registers_size) =>
              have_pending_hard_failure
         /\ inst.op = "invoke-static/range" /\ inst.vA + inst.vC > method.registers_size =>
              have_pending_hard_failure

\* ComputeWidthsAndCountOps succeeded.
WidthScanSucceeded == phase = "scan_try" \/ TaggingSucceeded

\* The walk over the widths of the instructions from offset 0 ends at the
\* declared size of the code.
WalkEndsAtSize(m) == Len(m.insns) > 0 /\ SumWidths(m.insns, Len(m.insns)) = InsnsSize(m)

\* C28: the width scan succeeds only if the walk over the widths from
\* offset 0 ends at the declared size of the code, and then IsOpcode is set
\* at exactly the offsets that begin an instruction; for code that is empty
\* or whose last instruction reaches past the declared size the
\* verification ends with a hard failure.
C28_WidthScan ==
  /\ WidthScanSucceeded =>
       /\ WalkEndsAtSize(method)
       /\ \A pc \in Pcs(method) : insn_flags[pc].opcode <=> pc \in OpcodePcs(method)
  /\ phase = "done" /\ ~WalkEndsAtSize(method) =>
       /\ have_pending_hard_failure
       /\ verify_result = "false"
       /\ failures = <<"BAD_CLASS_HARD">>

\* The width scan succeeded for a method with instructions of one, two and
\* three code units.
C28_Witness ==
  /\ WidthScanSucceeded
  /\ \E i, j, k \in 1..Len(method.insns) :
       /\ SizeInCodeUnits(method.insns[i]) = 1
       /\ SizeInCodeUnits(method.insns[j]) = 2
       /\ SizeInCodeUnits(method.insns[k]) = 3

\* The verification of a method without code and that of a method whose
\* last instruction reaches past the end of the code ended.
WidthScanRejected ==
  /\ phase = "done"
  /\ \/ method.insns = <<>>
     \/ Len(method.insns) > 1 /\ SumWidths(method.insns, Len(method.insns)) > InsnsSize(method)

\* The registers the receiver and the parameters of m take.
SignatureWidth(m) ==
  (IF m.is_static THEN 0 ELSE 1) + ParameterWidths(m.param_types, Len(m.param_types))

\* The first of the ins registers.
ArgStart(m) == m.registers_size - m.ins_size

\* The register of the i-th parameter of m.
ParameterRegister(m, i) ==
  ArgStart(m) + (IF m.is_static THEN 0 ELSE 1) + ParameterWidths(m.param_types, i - 1)

\* The type a register holds for a parameter with the descriptor desc.
ParameterType(desc) ==
  CASE desc = "Z" -> "Boolean"
    [] desc = "B" -> "Byte"
    [] desc = "I" -> "Integer"
    [] desc = "F" -> "Float"
    [] desc = "J" -> "LongLo"
    [] desc = "[I" -> "IntArray"
    [] desc = "[F" -> "FloatArray"
    [] OTHER -> desc

\* The line holds the signature of m: the registers below the ins are
\* undefined, the receiver is in the first of the ins, uninitialized for a
\* constructor of a class other than java.lang.Object, and the parameters
\* follow in order, a long in two adjacent registers.
HoldsSignature(m, line) ==
  /\ \A r \in 0..(ArgStart(m) - 1) : line.regs[r] = "Undefined"
  /\ ~m.is_static =>
       line.regs[ArgStart(m)] =
         IF m.is_constructor /\ m.declaring_class # "Object" THEN "UninitThis"
         ELSE m.declaring_class
  /\ line.this_initialized <=> (IsInstanceConstructor(m) /\ m.declaring_class = "Object")
  /\ \A i \in 1..Len(m.param_types) :
       /\ line.regs[ParameterRegister(m, i)] = ParameterType(m.param_types[i])
       /\ m.param_types[i] = "J" => line.regs[ParameterRegister(m, i) + 1] = "LongHi"
  /\ line.monitors = <<>>

\* Code flow is about to select its first instruction.
CodeFlowStarts == phase = "select" /\ obs.steps = 0

\* C29: code flow starts with pc 0, and no other pc, marked changed, with
\* no pc visited, and with the line of pc 0 holding the signature of the
\* method; the verification of a method whose receiver and parameters do
\* not fill its ins registers exactly ends with a hard failure before any
\* instruction is processed.
C29_StartsFromSignature ==
  /\ CodeFlowStarts =>
       /\ \A pc \in Pcs(method) :
            /\ insn_flags[pc].changed <=> pc = 0
            /\ ~insn_flags[pc].visited
       /\ SignatureWidth(method) = method.ins_size
       /\ HoldsSignature(method, reg_table[0])
  /\ phase = "done" /\ SignatureWidth(method) # method.ins_size =>
       /\ have_pending_hard_failure
       /\ verify_result = "false"
       /\ obs.steps = 0

\* Code flow starts for a method that is no constructor, with a reference,
\* a long and a boolean as parameters, in the last five of its registers.
C29_Witness ==
  /\ CodeFlowStarts
  /\ ~method.is_static
  /\ method.param_types = <<"Other", "J", "Z">>
  /\ reg_table[0].regs[2] = "LongLo"
  /\ reg_table[0].regs[3] = "LongHi"

\* Code flow starts for a constructor of a class other than
\* java.lang.Object, for a constructor of java.lang.Object and for a static
\* method with a long as its parameter.
SignatureKindsStart ==
  /\ CodeFlowStarts
  /\ \/ IsInstanceConstructor(method) /\ method.declaring_class = "Object"
     \/ method.is_static /\ method.param_types = <<"J">>

\* The driver of the code flow pass has returned success.
DriverSucceeded == phase = "done" /\ verify_result = "true"

\* Merging incoming into the saved line would leave the saved line as it
\* is.
MergeLeavesUnchanged(m, saved, incoming) ==
  LET mr == MergeRegisters(m, saved, incoming,
                           FailState(failures, encountered_failure_types,
                                     have_pending_hard_failure,
                                     have_pending_runtime_throw_failure, saved_line),
                           incoming)
  IN ~mr.changed /\ mr.line = saved

\* The line a visited instruction was last run on is the line saved for
\* it, where one is saved.
RanOnSavedLine ==
  \A e \in obs.entered :
    insn_flags[e[1]].visited /\ reg_table[e[1]] # NoLine =>
      CopyFromLine(e[2], reg_table[e[1]]) = e[2]

\* Every line a visited instruction last sent along one of its edges is
\* held by the line saved for the edge's target, where one is saved.
EdgesAbsorbed ==
  \A e \in obs.merged :
    insn_flags[e[1]].visited /\ e[2] \in Pcs(method) /\ reg_table[e[2]] # NoLine =>
      MergeLeavesUnchanged(method, reg_table[e[2]], e[3])

\* C30: when the driver returns success the saved lines are a fixed point:
\* every visited instruction was last run on its saved line, every visited
\* instruction has been run, and merging the line it produced for an edge
\* into the saved line of the edge's target would leave that line
\* unchanged.
C30_SavedLinesFixedPoint ==
  DriverSucceeded =>
    /\ \A pc \in Pcs(method) :
         insn_flags[pc].visited =>
           /\ ~insn_flags[pc].changed
           /\ \E e \in obs.entered : e[1] = pc
    /\ RanOnSavedLine
    /\ EdgesAbsorbed

\* The driver returned success after starting again from the top, and a
\* visited instruction last sent a line back along an edge to a visited
\* target whose saved line holds that line and more.
C30_Witness ==
  /\ DriverSucceeded
  /\ obs.rescanned
  /\ \E e \in obs.merged :
       /\ e[2] <= e[1]
       /\ e[2] \in Pcs(method)
       /\ reg_table[e[2]] # NoLine
       /\ insn_flags[e[2]].visited
       /\ \E r \in Registers(method) : reg_table[e[2]].regs[r] # e[3].regs[r]

\* The instructions marked changed that are not branch targets.
PendingNonTargets ==
  {pc \in Pcs(method) : insn_flags[pc].changed /\ ~insn_flags[pc].branch_target}

\* The instruction after the work instruction in the code.
NextInsnIdx == work_insn_idx + SizeInCodeUnits(InstructionAt(method, work_insn_idx))

\* The driver has selected an instruction that is not a branch target and
\* is about to run it.
NonTargetSelected == phase = "dispatch" /\ ~insn_flags[work_insn_idx].branch_target

\* RegisterLine::CompareLine(line) = 0, the test of the debug build before
\* it reports "work_line diverged".
LinesMatch(wl, line) == CopyFromLine(wl, line) = wl

\* The instruction run last continued to the work instruction, which
\* follows it in the code, as the last of its successors, and the work line
\* is the line it produced for it.
CarriedFromPredecessor ==
  LET prev == obs.insn_idx
  IN /\ prev # kDexNoIndex
     /\ prev + SizeInCodeUnits(InstructionAt(method, prev)) = work_insn_idx
     /\ obs.edges # <<>>
     /\ obs.edges[Len(obs.edges)] = <<"continue", work_insn_idx>>
     /\ IF reg_table[work_insn_idx] = NoLine
          THEN work_line = obs.fallthrough_merged
        ELSE LinesMatch(work_line, reg_table[work_insn_idx])

\* C31: an instruction that is not a branch target is selected only right
\* after the instruction before it in the code continued to it, with the
\* work line that instruction produced, which matches its saved line where
\* it has one; and a changed flag on an instruction that is not a branch
\* target never waits while another instruction is run: it is on the
\* instruction selected next.
C31_NonTargetCarriesLine ==
  /\ NonTargetSelected => CarriedFromPredecessor
  /\ phase = "select" => PendingNonTargets \subseteq {start_guess}
  /\ phase \in {"dispatch", "branch", "switch", "exception", "fallthrough"} =>
       PendingNonTargets \subseteq {work_insn_idx}
  /\ phase = "finish" => PendingNonTargets \subseteq {work_insn_idx, NextInsnIdx}

\* An instruction that is not a branch target and has a saved line is
\* selected again after it was visited.
C31_Witness ==
  /\ NonTargetSelected
  /\ reg_table[work_insn_idx] # NoLine
  /\ insn_flags[work_insn_idx].visited
  /\ work_insn_idx = interesting_dex_pc

\* The offsets whose changed flag has been set and not cleared: those of
\* insn_flags_ and those written beyond its end.
ChangedOffsets == {pc \in Pcs(method) : insn_flags[pc].changed} \cup obs.stray_changed

\* The offset is within the code and starts an instruction.
StartsInstruction(pc) == pc \in Pcs(method) /\ insn_flags[pc].opcode

\* The work instruction is the last of the method and its opcode flags as
\* the verifier holds them after the transfer function let it continue.
ContinuesPastEnd ==
  /\ NextInsnIdx >= InsnsSize(method)
  /\ "kContinue" \in opcode_flags
  /\ ~exc_handler_unreachable

\* C32: during code flow every offset whose changed flag is set, and
\* start_guess, is within the code and starts an instruction; and the
\* successor propagation of a last instruction that continues does not
\* complete: it fails hard.
C32_ChangedWithinCode ==
  /\ InCodeFlow => \A pc \in ChangedOffsets \cup {start_guess} : StartsInstruction(pc)
  /\ phase \in {"finish", "select"} /\ obs.steps > 0 => ~ContinuesPastEnd
  /\ phase = "done" /\ obs.steps > 0 /\ ContinuesPastEnd => have_pending_hard_failure

\* The same for the flags kept in insn_flags_ and for start_guess.
ChangedWithinFlags ==
  /\ InCodeFlow =>
       \A pc \in {q \in Pcs(method) : insn_flags[q].changed} \cup {start_guess} :
         StartsInstruction(pc)
  /\ phase \in {"finish", "select"} /\ obs.steps > 0 => ~ContinuesPastEnd
  /\ phase = "done" /\ obs.steps > 0 /\ ContinuesPastEnd => have_pending_hard_failure

\* A last instruction that continues was run and failed hard.
WalkedOffEnd ==
  /\ phase = "done"
  /\ obs.steps > 0
  /\ ContinuesPastEnd
  /\ verify_result = "false"
  /\ failures = <<"BAD_CLASS_HARD">>

\* A last instruction that continues by its opcode was run with a soft
\* failure that made it a throw, and the method was accepted.
LastInsnElevated ==
  /\ phase = "done"
  /\ verify_result = "true"
  /\ NextInsnIdx >= InsnsSize(method)
  /\ "kContinue" \in FlagsOf(InstructionAt(method, work_insn_idx).op)
  /\ opcode_flags = {"kThrow"}

\* The instruction at a dex pc within the code is a move-exception.
IsMoveException(pc) ==
  pc \in OpcodePcs(method) /\ InstructionAt(method, pc).op = "move-exception"

\* The instruction at pc is being run and its transfer function has been
\* applied without a hard failure.
PastTransfer(pc) == AfterDispatch /\ work_insn_idx = pc

\* No edge the work instruction has been propagated along so far, other
\* than a handler edge, leads to a move-exception.
OnlyThrownToMoveException ==
  \A i \in 1..Len(obs.edges) :
    obs.edges[i][1] # "handler" => ~IsMoveException(obs.edges[i][2])

\* The successor propagation of the work instruction is complete, and it
\* had an edge of the kind to a move-exception.
PropagatedTo(kind) ==
  /\ phase \in {"finish", "select"}
  /\ obs.steps > 0
  /\ \E i \in 1..Len(EdgesInOrder(method, insn_flags, work_insn_idx, opcode_flags,
                                  exc_handler_unreachable)) :
       LET e == EdgesInOrder(method, insn_flags, work_insn_idx, opcode_flags,
                             exc_handler_unreachable)[i]
       IN e[1] = kind /\ IsMoveException(e[2])

\* C33: a move-exception is reached by being thrown there only: in every
\* state of code flow no branch, switch or continue edge has been
\* propagated to a move-exception, no instruction completes its propagation
\* with such an edge, and a move-exception that got past its transfer
\* function is not at pc 0 and is the address of a catch handler;
\* otherwise the method is rejected with a hard failure.
C33_MoveExceptionOnlyThrown ==
  /\ InCodeFlow => OnlyThrownToMoveException
  /\ \A kind \in {"branch", "switch", "continue"} : ~PropagatedTo(kind)
  /\ \A pc \in Pcs(method) :
       IsMoveException(pc) /\ PastTransfer(pc) => pc # 0 /\ pc \in HandlerAddrs(method)
  /\ DriverSucceeded =>
       \A pc \in Pcs(method) :
         IsMoveException(pc) /\ insn_flags[pc].visited =>
           pc # 0 /\ pc \in HandlerAddrs(method)
  /\ phase = "done" /\ obs.steps > 0 /\ verify_result = "false" =>
       have_pending_hard_failure

\* The driver returned success for a method whose move-exception was run,
\* at a handler that the throw of an invoke led to.
C33_Witness ==
  /\ DriverSucceeded
  /\ \E pc \in Pcs(method) :
       /\ IsMoveException(pc)
       /\ insn_flags[pc].visited
       /\ \E e \in obs.merged : e[2] = pc

\* A method was rejected because an instruction continues, branches or
\* switches to a move-exception that is also a catch handler.
MoveExceptionEntered(kind) ==
  /\ phase = "done"
  /\ obs.steps > 0
  /\ verify_result = "false"
  /\ failures # <<>>
  /\ failures[Len(failures)] = "BAD_CLASS_HARD"
  /\ \E i \in 1..Len(EdgesInOrder(method, insn_flags, work_insn_idx,
                                  FlagsOf(InstructionAt(method, work_insn_idx).op),
                                  FALSE)) :
       LET e == EdgesInOrder(method, insn_flags, work_insn_idx,
                             FlagsOf(InstructionAt(method, work_insn_idx).op), FALSE)[i]
       IN e[1] = kind /\ IsMoveException(e[2]) /\ e[2] \in HandlerAddrs(method)

MoveExceptionFallenInto == MoveExceptionEntered("continue")
MoveExceptionBranchedInto == MoveExceptionEntered("branch")
MoveExceptionSwitchedInto == MoveExceptionEntered("switch")

\* The work instruction is a monitor-enter that can throw, in a try block
\* whose handlers include no catch-all.
MonitorEnterWithoutCatchAll ==
  /\ obs.steps > 0
  /\ InstructionAt(method, work_insn_idx).op = "monitor-enter"
  /\ insn_flags[work_insn_idx].in_try
  /\ ~HasCatchAllHandler(FindTryItem(method, work_insn_idx))

\* C34: a monitor-enter in a try block without a catch-all gets past the
\* handler step only if the monitor stack was empty before it ran and holds
\* exactly its own monitor after; run with a monitor already held, it ends
\* the verification with a hard failure.
C34_MonitorEnterExemption ==
  MonitorEnterWithoutCatchAll =>
    /\ phase \in {"fallthrough", "finish", "select"} =>
         MonitorStackDepth(obs.pre_line) = 0
    /\ phase = "fallthrough" => MonitorStackDepth(work_line) = 1
    /\ AfterDispatch /\ MonitorStackDepth(obs.pre_line) > 0 =>
         phase \in {"branch", "switch", "exception"}
    /\ phase = "done" /\ MonitorStackDepth(obs.pre_line) > 0 =>
         have_pending_hard_failure /\ verify_result = "false"

\* A monitor-enter in a try block without a catch-all took the first
\* monitor and went on to its next instruction.
C34_Witness ==
  /\ MonitorEnterWithoutCatchAll
  /\ phase = "fallthrough"
  /\ MonitorStackDepth(obs.pre_line) = 0
  /\ MonitorStackDepth(work_line) = 1

\* A monitor-enter in a try block without a catch-all was run with a
\* monitor held, took a second one, and the method was rejected for it.
SecondMonitorRejected ==
  /\ MonitorEnterWithoutCatchAll
  /\ phase = "done"
  /\ MonitorStackDepth(obs.pre_line) = 1
  /\ MonitorStackDepth(work_line) = 2
  /\ obs.handler_merged
  /\ verify_result = "false"
  /\ failures[Len(failures)] = "BAD_CLASS_HARD"

\* The work instruction is an if-eqz or if-nez that is no branch target,
\* behind an instance-of of a resolved class that wrote the register the if
\* tests and read another one, which held the null constant; and the
\* propagation of the if is done.
PeepholeOnZero ==
  /\ obs.steps > 0
  /\ phase = "finish"
  /\ work_insn_idx # 0
  /\ InstructionAt(method, work_insn_idx).op \in {"if-eqz", "if-nez"}
  /\ ~insn_flags[work_insn_idx].branch_target
  /\ LET inst == InstructionAt(method, work_insn_idx)
         instance_of_inst == PrevInstruction(method, work_insn_idx)
     IN /\ instance_of_inst.op = "instance-of"
        /\ inst.vA = instance_of_inst.vA
        /\ instance_of_inst.vA # instance_of_inst.vB
        /\ instance_of_inst.aux \in ResolvedClassTypes
        /\ obs.pre_line.regs[instance_of_inst.vB] = "Zero"

\* The line merged into the successor of the work instruction on which the
\* test of the instance-of succeeded.
SucceededLine ==
  IF InstructionAt(method, work_insn_idx).op = "if-eqz" THEN obs.fallthrough_merged
  ELSE obs.branch_merged

\* C35: with the pattern of the peephole on an object register that holds
\* the null constant, the successor on which the test succeeded gets the
\* object register with the class of the instance-of.
C35_ZeroIsNarrowed ==
  PeepholeOnZero =>
    LET instance_of_inst == PrevInstruction(method, work_insn_idx)
    IN /\ SucceededLine # NoLine
       /\ SucceededLine.regs[instance_of_inst.vB] = instance_of_inst.aux

\* What the code does instead: no update line is made, and both successors
\* get the object register as the null constant.
ZeroIsNotNarrowed ==
  PeepholeOnZero =>
    LET instance_of_inst == PrevInstruction(method, work_insn_idx)
    IN /\ branch_line = NoLine /\ fallthrough_line = NoLine
       /\ obs.branch_merged.regs[instance_of_inst.vB] = "Zero"
       /\ obs.fallthrough_merged.regs[instance_of_inst.vB] = "Zero"

\* The method has a monitor-enter.
HasMonitorEnter ==
  \E pc \in OpcodePcs(method) : InstructionAt(method, pc).op = "monitor-enter"

\* The target pc of a run of FindLocksAtDexPc has been selected, and the
\* line it was selected with the last time.
TargetProcessed ==
  \/ phase = "dispatch" /\ work_insn_idx = interesting_dex_pc
  \/ \E e \in obs.entered : e[1] = interesting_dex_pc

LineAtTarget ==
  IF phase = "dispatch" /\ work_insn_idx = interesting_dex_pc THEN work_line
  ELSE (CHOOSE e \in obs.entered : e[1] = interesting_dex_pc)[2]

\* The list names every monitor of the stack of the line, bottom first, with
\* the registers that hold it and the dex pc of its monitor-enter.
ListIsMonitorStack(list, line) ==
  /\ Len(list) = Len(line.monitors)
  /\ \A i \in DOMAIN list :
       /\ list[i].dex_pc = line.monitors[i]
       /\ list[i].dex_registers =
            {r \in DOMAIN line.reg_to_lock_depths : (i - 1) \in line.reg_to_lock_depths[r]}

\* The list is the monitor stack of the line as pairs of registers and
\* acquisition pc: bottom first, every lock that a register of the line
\* holds, with the registers that hold it and the dex pc the stack has for it.
ListIsHeldLocks(list, line) ==
  /\ Len(list) = Cardinality(LockDepths(line))
  /\ \A i \in DOMAIN list :
       \E d \in LockDepths(line) :
         /\ Cardinality({e \in LockDepths(line) : e < d}) = i - 1
         /\ list[i].dex_registers =
              {r \in DOMAIN line.reg_to_lock_depths : d \in line.reg_to_lock_depths[r]}
         /\ d < Len(line.monitors)
         /\ list[i].dex_pc = line.monitors[d + 1]

\* C36, as claimed: the list of FindLocksAtDexPc is the monitor stack of the
\* line the target pc was last processed with, before its instruction is
\* applied, in the order of the stack; without a monitor-enter in the method
\* the list is left as it was given.
C36_ListIsMonitorStack ==
  kMonitorDexPCs =>
    /\ TargetProcessed => ListIsHeldLocks(monitor_enter_dex_pcs.list, LineAtTarget)
    /\ ~HasMonitorEnter => monitor_enter_dex_pcs.list = <<>> /\ ~obs.locks_recorded

\* Some monitor of the stack is held by no register of the line.
UntrackedMonitor(line) ==
  \E d \in 0..(Len(line.monitors) - 1) : d \notin LockDepths(line)

\* Some register of the line holds a depth that is no longer on the stack.
StaleLockDepth(line) ==
  \E d \in LockDepths(line) : d >= Len(line.monitors)

\* The list names, in increasing depth, the depths that some register of the
\* line holds, each with the registers that hold it and, where the depth is
\* on the stack, the dex pc of its monitor-enter.
ListIsTrackedLocks(list, line) ==
  /\ Len(list) = Cardinality(LockDepths(line))
  /\ \A i \in DOMAIN list :
       \E d \in LockDepths(line) :
         /\ Cardinality({e \in LockDepths(line) : e < d}) = i - 1
         /\ list[i].dex_registers =
              {r \in DOMAIN line.reg_to_lock_depths : d \in line.reg_to_lock_depths[r]}
         /\ d < Len(line.monitors) => list[i].dex_pc = line.monitors[d + 1]

\* The list of FindLocksAtDexPc holds the tracked locks of the line the
\* target pc was last processed with; the dex pcs are those of the stack
\* when every held depth is on the stack, and the list has an entry for
\* every monitor of the stack when every monitor is held by a register;
\* without a monitor-enter in the method the list is never written.
TrackedLocksListed ==
  kMonitorDexPCs =>
    /\ TargetProcessed =>
         /\ ListIsTrackedLocks(monitor_enter_dex_pcs.list, LineAtTarget)
         /\ ~StaleLockDepth(LineAtTarget) =>
              ListIsHeldLocks(monitor_enter_dex_pcs.list, LineAtTarget)
         /\ ~UntrackedMonitor(LineAtTarget) /\ ~StaleLockDepth(LineAtTarget) =>
              ListIsMonitorStack(monitor_enter_dex_pcs.list, LineAtTarget)
    /\ ~TargetProcessed => monitor_enter_dex_pcs.list = <<>>
    /\ ~HasMonitorEnter => monitor_enter_dex_pcs.list = <<>> /\ ~obs.locks_recorded

\* The target pc was processed with a line that holds a depth which is no
\* longer on the stack: the dex pc listed for it was read past the end.
StaleDepthListed ==
  /\ kMonitorDexPCs
  /\ TargetProcessed
  /\ StaleLockDepth(LineAtTarget)
  /\ monitor_enter_dex_pcs.list # <<>>

\* The target pc was processed with a line whose stack has a monitor that
\* no register holds: the list is shorter than the stack.
UntrackedMonitorOmitted ==
  /\ kMonitorDexPCs
  /\ TargetProcessed
  /\ UntrackedMonitor(LineAtTarget)
  /\ Len(monitor_enter_dex_pcs.list) < Len(LineAtTarget.monitors)

\* The target pc was processed twice, the list matches the monitor stack
\* of the later line.
ListedTwice ==
  /\ kMonitorDexPCs
  /\ obs.selected_after_record
  /\ phase = "dispatch" /\ work_insn_idx = interesting_dex_pc
  /\ monitor_enter_dex_pcs.list # <<>>
  /\ ListIsMonitorStack(monitor_enter_dex_pcs.list, work_line)

\* No runtime throw is marked in this environment: AOT mode, or a target
\* SDK level of at least S_V2.
NoRuntimeThrowMode == env.aot_mode \/ env.sdk_s_v2

\* The transfer function of the work instruction recorded failures, none of
\* them hard.
FailedSoftly ==
  /\ obs.steps > 0
  /\ obs.transfer_failures # <<>>
  /\ ~have_pending_hard_failure

\* C37: in AOT mode, or with a target SDK level of at least S_V2, a soft
\* failure marks no runtime throw: the flag is never set and no
\* VERIFY_ERROR_RUNTIME_THROW is recorded, the opcode flags of the failing
\* instruction are those its opcode has without a failure (for a
\* monitor-exit: without kThrow), and its branch, switch, handler and
\* fallthrough successors are the ones these flags name, in their order.
C37_NoRuntimeThrowInAotOrSV2 ==
  NoRuntimeThrowMode =>
    /\ ~have_pending_runtime_throw_failure
    /\ "RUNTIME_THROW" \notin encountered_failure_types
    /\ ~obs.rt_marked
    /\ AfterDispatch =>
         opcode_flags = FlagsAfterSwitch(InstructionAt(method, work_insn_idx).op)
    /\ phase = "finish" =>
         obs.edges = EdgesInOrder(method, insn_flags, work_insn_idx,
                                  FlagsAfterSwitch(InstructionAt(method, work_insn_idx).op),
                                  exc_handler_unreachable)

\* In such an environment an instruction that can continue failed softly
\* with a failure kind that marks a runtime throw elsewhere, and its line
\* went on to the next instruction.
C37_Witness ==
  /\ NoRuntimeThrowMode
  /\ phase = "finish"
  /\ FailedSoftly
  /\ \E i \in DOMAIN obs.transfer_failures :
       obs.transfer_failures[i] \in SoftErrorsWithThrow \ {"LOCKING"}
  /\ obs.edges # <<>>
  /\ obs.edges[Len(obs.edges)][1] = "continue"

\* In such an environment a monitor-exit failed with a locking failure and
\* its line went on to the next instruction.
LockingFailureGoesOn ==
  /\ NoRuntimeThrowMode
  /\ phase = "finish"
  /\ FailedSoftly
  /\ InstructionAt(method, work_insn_idx).op = "monitor-exit"
  /\ "LOCKING" \in encountered_failure_types
  /\ obs.edges # <<>>

\* The kinds of the failures recorded in failures_.
RecordedKinds == {failures[i] : i \in DOMAIN failures}

\* C38: what VerifyMethod reports follows from the failures recorded: no
\* failure when Verify() succeeds with no failure recorded; with failures
\* recorded, the type-checks failure when every kind is one the runtime
\* handles and an unresolved type check is among them, the access-checks
\* failure when every kind is one the runtime handles and none is an
\* unresolved type check, the soft failure when some kind is not one the
\* runtime handles; the hard failure exactly when Verify() fails; and the
\* kinds reported are those of the failures recorded.
C38_OutcomeFromFailures ==
  Verified =>
    LET succeeded == verify_result = "true"
        handled == RecordedKinds \subseteq unresolved_mask
        unresolved == "UNRESOLVED_TYPE_CHECK" \in RecordedKinds
    IN /\ result.kind = "kNoFailure" <=> succeeded /\ failures = <<>>
       /\ result.kind = "kTypeChecksFailure" <=>
            succeeded /\ failures # <<>> /\ handled /\ unresolved
       /\ result.kind = "kAccessChecksFailure" <=>
            succeeded /\ failures # <<>> /\ handled /\ ~unresolved
       /\ result.kind = "kSoftFailure" <=> succeeded /\ ~handled
       /\ result.kind = "kHardFailure" <=> ~succeeded
       /\ result.types = RecordedKinds

\* Verify() succeeded with an unresolved type check and another failure
\* recorded, all of kinds the runtime handles.
C38_Witness ==
  /\ Verified
  /\ result.kind = "kTypeChecksFailure"
  /\ Cardinality(RecordedKinds) >= 2

\* Verify() succeeded with an unresolved type check and a locking failure
\* recorded: the soft failure is reported.
UnresolvedAndLockingIsSoft ==
  /\ Verified
  /\ result.kind = "kSoftFailure"
  /\ {"UNRESOLVED_TYPE_CHECK", "LOCKING"} \subseteq RecordedKinds

\* The other outcomes occur.
AccessChecksReported == Verified /\ result.kind = "kAccessChecksFailure"
NoFailureReported == Verified /\ result.kind = "kNoFailure"
HardFailureReported ==
  Verified /\ result.kind = "kHardFailure" /\ Cardinality(RecordedKinds) >= 2

\* An unresolved catch handler was run where no runtime throw is marked:
\* the register holds the unresolved type and the next instruction is
\* reached.
UnresolvedHandlerGoesOn ==
  /\ phase = "fallthrough"
  /\ obs.steps > 0
  /\ InstructionAt(method, work_insn_idx).op = "move-exception"
  /\ work_line.regs[InstructionAt(method, work_insn_idx).vA] = UnresolvedClass
  /\ ~exc_handler_unreachable
  /\ "kContinue" \in opcode_flags

\* An unresolved catch handler was run where a runtime throw is marked: the
\* handler is unreachable.
UnresolvedHandlerUnreachable ==
  /\ phase = "finish"
  /\ obs.steps > 0
  /\ InstructionAt(method, work_insn_idx).op = "move-exception"
  /\ exc_handler_unreachable
  /\ obs.edges = <<>>
  /\ "RUNTIME_THROW" \in encountered_failure_types

\* C39: the runtime-throw flag belongs to one instruction: it is false
\* whenever the driver looks for the next instruction and whenever it starts
\* to process one.  It is cleared before code flow begins, and the end of an
\* instruction that set it, in its transfer function or later while its
\* successors were propagated, clears it and records
\* VERIFY_ERROR_RUNTIME_THROW.
C39_RuntimeThrowFlagPerInstruction ==
  /\ phase \in {"select", "dispatch"} => ~have_pending_runtime_throw_failure
  /\ phase = "select" /\ obs.rt_marked => failures[Len(failures)] = "RUNTIME_THROW"

\* The flag is set when code flow is about to begin: a failure of the
\* pre-pass marked a runtime throw.
FlagSetBeforeCodeFlow ==
  /\ phase = "code_flow"
  /\ have_pending_runtime_throw_failure

\* The flag is set at the end of an instruction whose transfer function
\* left it clear: a failure during or after the propagation set it.
FlagSetLate ==
  /\ phase = "finish"
  /\ have_pending_runtime_throw_failure
  /\ ~obs.rt_marked

\* An instruction whose transfer function left the flag clear is done, the
\* flag was set late: the runtime throw is the last failure recorded, after
\* a locking failure, and the flag is clear again.
C39_Witness ==
  /\ phase = "select"
  /\ obs.steps > 0
  /\ ~obs.rt_marked
  /\ "RUNTIME_THROW" \notin {obs.transfer_failures[i] : i \in DOMAIN obs.transfer_failures}
  /\ Len(failures) >= 2
  /\ failures[Len(failures)] = "RUNTIME_THROW"
  /\ failures[Len(failures) - 1] = "LOCKING"
  /\ ~have_pending_runtime_throw_failure

====
